---- MODULE Spec2Model ----
(***************************************************************************)
(* Character / chat store of App_Function_Libraries/DB/Character_Chat_DB.py *)
(* The store is an SQLite file: three tables (CharacterCards,               *)
(* CharacterChats, ChatKeywords) and the FTS5 external-content index        *)
(* CharacterChats_fts kept by three triggers.  Every public function opens  *)
(* its own connection, runs its statements in one implicit transaction and  *)
(* commits, so a handler is one atomic step on the committed store; the     *)
(* only handler that reads and then writes in separate transactions is      *)
(* add_character_card (SELECT, then INSERT/UPDATE), which SpecConc splits.  *)
(***************************************************************************)
EXTENDS Integers, Sequences, FiniteSets, TLC

(***************************************************************************)
(* Bounds of the model.                                                    *)
(***************************************************************************)
\* highest CharacterCards id the model lets AUTOINCREMENT issue
MaxCards == 2
\* highest CharacterChats id the model lets AUTOINCREMENT issue
MaxChats == 1
\* highest CharacterChats id issued in the specifications of keyword lookups
\* and of search
MaxTaggedChats == 2

(***************************************************************************)
(* Values.                                                                 *)
(***************************************************************************)
\* SQL NULL / Python None inside a column or an argument
NULL == "NULL"
\* Python None where an integer id is expected, as a return value or as an
\* optional argument (ids start at 1)
NoId == 0

\* Python values handed to json.dumps: v is a string for "str", a sequence
\* of values for "list" and "tuple", a sequence of <<key, value>> for "dict"
PyStr(s) == [py |-> "str", v |-> s]
PyList(items) == [py |-> "list", v |-> items]
PyTuple(items) == [py |-> "tuple", v |-> items]
PyDict(pairs) == [py |-> "dict", v |-> pairs]

\* JSON text is a sequence of lexemes: punctuation and string literals
Punct(c) == <<"p", c>>
StrLit(s) == <<"s", s>>

RECURSIVE JsonDumps(_), JsonDumpItems(_), JsonDumpMembers(_)
\* json.dumps: lists and tuples both become arrays, dicts become objects
JsonDumps(x) ==
    CASE x.py = "str" -> << StrLit(x.v) >>
      [] x.py \in {"list", "tuple"} ->
            << Punct("[") >> \o JsonDumpItems(x.v) \o << Punct("]") >>
      [] x.py = "dict" ->
            << Punct("{") >> \o JsonDumpMembers(x.v) \o << Punct("}") >>

JsonDumpItems(items) ==
    IF Len(items) = 0 THEN << >>
    ELSE JsonDumps(Head(items)) \o
         (IF Len(items) = 1 THEN << >>
          ELSE << Punct(",") >> \o JsonDumpItems(Tail(items)))

JsonDumpMembers(pairs) ==
    IF Len(pairs) = 0 THEN << >>
    ELSE << StrLit(Head(pairs)[1]), Punct(":") >> \o JsonDumps(Head(pairs)[2]) \o
         (IF Len(pairs) = 1 THEN << >>
          ELSE << Punct(",") >> \o JsonDumpMembers(Tail(pairs)))

RECURSIVE JsonParseValue(_, _), JsonParseItems(_, _, _), JsonParseMembers(_, _, _)
\* the decoder: parses the value that starts at lexeme i, returns it with
\* the position after it; arrays always come back as lists
JsonParseValue(t, i) ==
    CASE t[i][1] = "s" -> [val |-> PyStr(t[i][2]), next |-> i + 1]
      [] t[i] = Punct("[") -> JsonParseItems(t, i + 1, << >>)
      [] t[i] = Punct("{") -> JsonParseMembers(t, i + 1, << >>)

JsonParseItems(t, i, acc) ==
    IF t[i] = Punct("]") THEN [val |-> PyList(acc), next |-> i + 1]
    ELSE IF t[i] = Punct(",") THEN JsonParseItems(t, i + 1, acc)
    ELSE LET r == JsonParseValue(t, i)
         IN  JsonParseItems(t, r.next, Append(acc, r.val))

JsonParseMembers(t, i, acc) ==
    IF t[i] = Punct("}") THEN [val |-> PyDict(acc), next |-> i + 1]
    ELSE IF t[i] = Punct(",") THEN JsonParseMembers(t, i + 1, acc)
    ELSE LET r == JsonParseValue(t, i + 2)
         IN  JsonParseMembers(t, r.next, Append(acc, << t[i][2], r.val >>))

JsonLoads(t) == JsonParseValue(t, 1).val

\* str.lower() on the model's vocabulary
Lower(s) ==
    CASE s = "Ada" -> "ada"
      [] s = "Bob" -> "bob"
      [] s = "Foo" -> "foo"
      [] s = " Foo " -> " foo "
      [] OTHER -> s

\* str.strip() on the model's vocabulary
Strip(s) ==
    CASE s = " Foo " -> "Foo"
      [] s = " foo " -> "foo"
      [] s = " " -> ""
      [] OTHER -> s

(***************************************************************************)
(* Inputs.                                                                 *)
(***************************************************************************)
\* card_data dictionaries passed to add_character_card / update_character_card;
\* a key that is not in the DOMAIN is a key the caller did not supply
CardAdaBare == [name |-> "Ada"]
CardAdaEmpty == [name |-> "Ada", image |-> NULL]
CardAdaFull ==
    [name |-> "Ada", image |-> "png", description |-> "poet",
     alternate_greetings |-> PyList(<< PyStr("hi"), PyStr("yo") >>),
     tags |-> PyList(<< PyStr("t1") >>),
     extensions |-> PyDict(<< << "k", PyStr("v") >> >>)]
CardBob == [name |-> "Bob", image |-> NULL, tags |-> PyList(<< PyStr("t1") >>)]
CardNoName == [image |-> NULL, name |-> NULL]

CardInputs == {CardAdaBare, CardAdaEmpty, CardAdaFull, CardBob, CardNoName}

\* the cards the specifications about chats create characters from
PlainCardInputs == {CardAdaBare, CardAdaEmpty, CardBob}

\* chat histories: lists of (speaker, message) tuples
HistHello == PyList(<< PyTuple(<< PyStr("user"), PyStr("hi") >>),
                       PyTuple(<< PyStr("Ada"), PyStr("hello") >>) >>)
HistBye == PyList(<< PyTuple(<< PyStr("user"), PyStr("bye") >>) >>)
HistInputs == {HistHello, HistBye}
\* a history with no message yet
HistEmpty == PyList(<< >>)

\* keywords argument of add_character_chat: a list of strings; None is
\* modelled by the empty list, which "if keywords:" treats the same way
KeywordInputs == {<< >>, << " Foo " >>}

\* keywords arguments of the statement-by-statement specification: none, a
\* pair stored twice, and a list whose last element is None
TxKeywordInputs == {<< >>, << " Foo ", "foo" >>, << " Foo ", NULL >>}

\* keywords arguments of the specification of keyword lookups
TagInputs == {<< " Foo ", "foo" >>, << "bar" >>, << "Foo", "bar" >>}

\* keywords arguments of fetch_keywords_for_chats
LookupInputs == {<< >>, << "foo" >>, << " Foo " >>, << "foo", "bar" >>}

\* conversation names
NameInputs == {"intro"}

\* search queries: two terms, a blank query and an unterminated string
QueryInputs == {"hello", "intro", " ", "\""}

\* the queries of the specification of search: terms, the empty and a blank
\* query, an unterminated string
SearchQueryInputs == {"hello", "bye", "intro", "", " ", "\""}

\* ids a caller may pass: every id the model can issue
CardIds == 1 .. MaxCards
ChatIds == 1 .. MaxChats
TaggedChatIds == 1 .. MaxTaggedChats

\* chats of the specification of the paged search
MaxPagedChats == 6
\* results_per_page of search_db as the callers leave it
PageSize == 5
\* the fields argument of search_db: the index by its table name, columns
\* of the index by their names, and the field perform_full_text_search_chat
\* passes
FieldsInputs ==
    {<< "CharacterChats_fts" >>, << "chat_history" >>,
     << "conversation_name", "chat_history" >>, << "content" >>}
\* the where_clause argument of search_db
WhereInputs == {"", "CharacterChats.id > 2"}

\* relevant_chat_ids arguments of perform_full_text_search_chat
RelevantInputs == {<< >>, << 1 >>, << 2 >>, << 1, 2 >>}
\* the page argument of search_db: up to one page past the last
PageInputs == 1 .. (MaxPagedChats \div PageSize + 2)
\* the query argument of search_db
PageQueryInputs == {"intro", " "}

\* connections of the sequential and of the concurrent specification
Conns == {"c1", "c2"}

VARIABLES
    sqlite_master,      \* table sqlite_master: the structures the file holds
    CharacterCards,     \* table CharacterCards: id -> row
    card_seq,           \* sqlite_sequence entry of CharacterCards
    CharacterChats,     \* table CharacterChats: id -> row
    chat_seq,           \* sqlite_sequence entry of CharacterChats
    ChatKeywords,       \* table ChatKeywords: sequence of <<chat_id, keyword>>
    CharacterChats_fts, \* FTS5 inverted index: rowid -> column -> set of terms
    pc,                 \* per connection: the add_character_card call in progress
    last                \* the call that returned last, with its result

vars == << sqlite_master, CharacterCards, card_seq, CharacterChats, chat_seq,
           ChatKeywords, CharacterChats_fts, pc, last >>

store == << sqlite_master, CharacterCards, card_seq, CharacterChats, chat_seq,
            ChatKeywords, CharacterChats_fts >>

Idle == [at |-> "idle"]
NoCall == [op |-> "none"]

(***************************************************************************)
(* Schema creation (initialize_database, setup_chat_database).             *)
(***************************************************************************)
\* the data of the store: the rows of the tables and the index entries
data == << CharacterCards, card_seq, CharacterChats, chat_seq, ChatKeywords,
           CharacterChats_fts >>

\* the names in sqlite_master
StructureNames(master) == {master[i].name : i \in DOMAIN master}

\* CREATE <type> <name> without IF NOT EXISTS
CreateStructureStrict(master, type, name) ==
    IF name \in StructureNames(master)
    THEN [master |-> master, raised |-> "OperationalError"]
    ELSE [master |-> Append(master, [type |-> type, name |-> name]),
          raised |-> ""]

\* CREATE <type> IF NOT EXISTS <name>
CreateStructure(master, type, name) ==
    IF name \in StructureNames(master)
    THEN [master |-> master, raised |-> ""]
    ELSE [master |-> Append(master, [type |-> type, name |-> name]),
          raised |-> ""]

\* the statements of initialize_database in order; the three triggers are
\* the statements of its one executescript call
InitStatements ==
    << [sql |-> "PRAGMA", type |-> "", name |-> ""],
       [sql |-> "CREATE", type |-> "table", name |-> "CharacterCards"],
       [sql |-> "CREATE", type |-> "table", name |-> "CharacterChats"],
       [sql |-> "CREATE", type |-> "table", name |-> "CharacterChats_fts"],
       [sql |-> "CREATE", type |-> "trigger", name |-> "CharacterChats_ai"],
       [sql |-> "CREATE", type |-> "trigger", name |-> "CharacterChats_ad"],
       [sql |-> "CREATE", type |-> "trigger", name |-> "CharacterChats_au"],
       [sql |-> "CREATE", type |-> "table", name |-> "ChatKeywords"],
       [sql |-> "CREATE", type |-> "index", name |-> "idx_chatkeywords_keyword"],
       [sql |-> "CREATE", type |-> "index", name |-> "idx_chatkeywords_chat_id"],
       [sql |-> "COMMIT", type |-> "", name |-> ""] >>

\* one statement of initialize_database on the file.  The sqlite3 module
\* opens a transaction only before INSERT, UPDATE, DELETE and REPLACE, so
\* every CREATE statement is committed by itself as soon as it has run
ExecInitStatement(master, stmt) ==
    IF stmt.sql = "CREATE"
    THEN CreateStructure(master, stmt.type, stmt.name)
    ELSE [master |-> master, raised |-> ""]

\* sqlite_master after the statements n+1.. of initialize_database
RECURSIVE RunInitStatements(_, _)
RunInitStatements(master, n) ==
    IF n >= Len(InitStatements) THEN master
    ELSE RunInitStatements(ExecInitStatement(master, InitStatements[n + 1]).master,
                           n + 1)

\* sqlite_master of a file on which initialize_database has returned
InitializedSchema == RunInitStatements(<< >>, 0)

\* setup_chat_database runs when the module is imported and ends the process
\* when initialize_database raises: the handlers run on a complete schema
SchemaComplete == StructureNames(sqlite_master) = StructureNames(InitializedSchema)

\* initialize_database after n statements, started on the schema pre
Initializing(n, pre) == [at |-> "init", n |-> n, pre |-> pre]

\* connection c in state t runs the next statement of initialize_database
InitStep(c, t) ==
    LET r == ExecInitStatement(sqlite_master, InitStatements[t.n + 1])
        returns == r.raised # "" \/ t.n + 1 = Len(InitStatements)
    IN  /\ sqlite_master' = r.master
        /\ pc' = [pc EXCEPT ![c] = IF returns THEN Idle
                                   ELSE Initializing(t.n + 1, t.pre)]
        /\ last' = IF returns
                   THEN [op |-> "initialize_database", pre |-> t.pre,
                         fault |-> FALSE, raised |-> r.raised]
                   ELSE last
        /\ UNCHANGED data

\* initialize_database: connect and the first statement
initialize_database_begin(c) ==
    /\ pc[c] = Idle
    /\ InitStep(c, Initializing(0, sqlite_master))

\* the next statement of initialize_database
initialize_database_execute(c) ==
    /\ pc[c].at = "init"
    /\ InitStep(c, pc[c])

\* the next statement of initialize_database fails in the engine (disk
\* full, I/O error, a module that is not compiled in): the handler rolls
\* back, which undoes nothing since no transaction is open, and raises
\* again; setup_chat_database then ends the process
initialize_database_fault(c) ==
    /\ pc[c].at = "init"
    /\ pc' = [pc EXCEPT ![c] = Idle]
    /\ last' = [op |-> "initialize_database", pre |-> pc[c].pre,
                fault |-> TRUE, raised |-> "OperationalError"]
    /\ UNCHANGED store

\* a new, empty file before initialize_database has run on it
InitFile ==
    /\ sqlite_master = << >>
    /\ CharacterCards = << >>
    /\ card_seq = 0
    /\ CharacterChats = << >>
    /\ chat_seq = 0
    /\ ChatKeywords = << >>
    /\ CharacterChats_fts = << >>
    /\ pc = [c \in {"c1"} |-> Idle]
    /\ last = NoCall

\* the store right after initialize_database on a new file
Init ==
    /\ sqlite_master = InitializedSchema
    /\ CharacterCards = << >>
    /\ card_seq = 0
    /\ CharacterChats = << >>
    /\ chat_seq = 0
    /\ ChatKeywords = << >>
    /\ CharacterChats_fts = << >>
    /\ pc = [c \in {"c1"} |-> Idle]
    /\ last = NoCall

(***************************************************************************)
(* Schema (initialize_database).                                           *)
(***************************************************************************)
\* columns of CharacterCards besides id and created_at
CharacterCardsColumns ==
    {"name", "description", "personality", "scenario", "image",
     "post_history_instructions", "first_mes", "mes_example", "creator_notes",
     "system_prompt", "alternate_greetings", "tags", "creator",
     "character_version", "extensions"}

\* PRAGMA foreign_keys is a per-connection setting that defaults to off; the
\* only connection that turns it on is the one initialize_database opens and
\* closes, so the connections of the handlers run without it
foreign_keys == FALSE

\* dict.get(k, default)
DictGet(d, k, default) == IF k \in DOMAIN d THEN d[k] ELSE default

\* a table without the rows whose ids are in gone
DeleteRows(table, gone) == [i \in DOMAIN table \ gone |-> table[i]]

\* CardConstraint of a schema whose name column is NOT NULL but not UNIQUE
CardConstraintNotUnique(cards, id, name) ==
    IF name = NULL THEN "NOT NULL" ELSE ""

\* name TEXT UNIQUE NOT NULL: the constraint an INSERT or UPDATE of row id
\* breaks, or "" when it breaks none
CardConstraint(cards, id, name) ==
    IF name = NULL THEN "NOT NULL"
    ELSE IF \E o \in DOMAIN cards : o # id /\ cards[o].name = name THEN "UNIQUE"
    ELSE ""

\* INSERT INTO CharacterCards: id INTEGER PRIMARY KEY AUTOINCREMENT takes
\* the successor of the sqlite_sequence entry
InsertCharacterCards(cards, seq, row) ==
    IF CardConstraint(cards, NoId, row.name) # ""
    THEN [cards |-> cards, seq |-> seq, id |-> NoId, err |-> "IntegrityError"]
    ELSE [cards |-> (seq + 1) :> row @@ cards, seq |-> seq + 1,
          id |-> seq + 1, err |-> ""]

(***************************************************************************)
(* FTS5 external-content index CharacterChats_fts (content='CharacterChats',*)
(* content_rowid='id') and its triggers.  The index stores terms only; the *)
(* column values of an FTS row are read back from the content table.       *)
(***************************************************************************)
\* unicode61 tokenizer on a plain string of the model (one word or empty)
Fts5TokenizeStr(s) == IF s \in {NULL, "", " "} THEN {} ELSE {Lower(s)}

\* unicode61 tokenizer on JSON text: the words of the string literals,
\* case-folded; brackets, commas and quotes are separators
Fts5TokenizeJson(t) ==
    UNION {Fts5TokenizeStr(t[i][2]) : i \in {j \in DOMAIN t : t[j][1] = "s"}}

Fts5Terms(conversation_name, chat_history) ==
    [conversation_name |-> Fts5TokenizeStr(conversation_name),
     chat_history |-> Fts5TokenizeJson(chat_history)]

NoTerms == [conversation_name |-> {}, chat_history |-> {}]

Fts5Entry(idx, rowid) == IF rowid \in DOMAIN idx THEN idx[rowid] ELSE NoTerms

\* the index with the terms of rowid set to e (no entry when e is empty)
Fts5Put(idx, rowid, e) ==
    IF e = NoTerms THEN DeleteRows(idx, {rowid})
    ELSE [i \in DOMAIN idx \cup {rowid} |-> IF i = rowid THEN e ELSE idx[i]]

\* adding the terms of a document to the postings of rowid
Fts5IndexInsert(idx, rowid, terms) ==
    Fts5Put(idx, rowid,
        [conversation_name |->
            Fts5Entry(idx, rowid).conversation_name \cup terms.conversation_name,
         chat_history |->
            Fts5Entry(idx, rowid).chat_history \cup terms.chat_history])

\* removing a document from the postings of rowid: FTS5 does not keep the
\* old text, it tokenizes what the content table holds for rowid now
Fts5IndexDelete(idx, content, rowid) ==
    IF rowid \notin DOMAIN content THEN idx
    ELSE LET old == Fts5Terms(content[rowid].conversation_name,
                              content[rowid].chat_history)
         IN  Fts5Put(idx, rowid,
                [conversation_name |->
                    Fts5Entry(idx, rowid).conversation_name \ old.conversation_name,
                 chat_history |->
                    Fts5Entry(idx, rowid).chat_history \ old.chat_history])

\* trigger CharacterChats_ai: INSERT INTO CharacterChats_fts(rowid, ...)
CharacterChats_ai(idx, content, new_id) ==
    Fts5IndexInsert(idx, new_id,
        Fts5Terms(content[new_id].conversation_name, content[new_id].chat_history))

\* trigger CharacterChats_ad: DELETE FROM CharacterChats_fts WHERE rowid =
\* old.id.  The rows of the virtual table are the rows of the content table,
\* which no longer has old.id when an AFTER DELETE trigger runs
CharacterChats_ad(idx, content, old_id) ==
    IF old_id \in DOMAIN content THEN Fts5IndexDelete(idx, content, old_id) ELSE idx

\* CharacterChats_au of a trigger that writes the entry of the row anew from
\* new.chat_history alone
CharacterChats_au_history_only(idx, content, new_id) ==
    IF new_id \notin DOMAIN content THEN idx
    ELSE Fts5Put(idx, new_id,
            [conversation_name |-> {},
             chat_history |-> Fts5TokenizeJson(content[new_id].chat_history)])

\* trigger CharacterChats_au: UPDATE CharacterChats_fts SET ... WHERE rowid =
\* new.id, an FTS5 delete of the row followed by an insert of the new values;
\* content is the table after the UPDATE
CharacterChats_au(idx, content, new_id) ==
    IF new_id \notin DOMAIN content THEN idx
    ELSE Fts5IndexInsert(Fts5IndexDelete(idx, content, new_id), new_id,
            Fts5Terms(content[new_id].conversation_name, content[new_id].chat_history))

RECURSIVE FireDeleteTrigger(_, _, _)
\* CharacterChats_ad fired once for every deleted row id in ids
FireDeleteTrigger(idx, content, ids) ==
    IF ids = {} THEN idx
    ELSE LET i == CHOOSE x \in ids : \A y \in ids : x <= y
         IN  FireDeleteTrigger(CharacterChats_ad(idx, content, i), content, ids \ {i})

(***************************************************************************)
(* Character cards.                                                        *)
(***************************************************************************)
JsonCardKeys == {"alternate_greetings", "tags", "extensions"}

JsonCardDefault(k) == IF k = "extensions" THEN PyDict(<< >>) ELSE PyList(<< >>)

\* parse_character_card: every V2 key with its default; 'image' only when
\* the caller supplied it
parse_character_card(card_data) ==
    [k \in (CharacterCardsColumns \ {"image"}) \cup (DOMAIN card_data \cap {"image"}) |->
        IF k \in JsonCardKeys THEN JsonDumps(DictGet(card_data, k, JsonCardDefault(k)))
        ELSE DictGet(card_data, k, "")]

\* SELECT id FROM CharacterCards WHERE name = ? (nothing equals NULL)
SelectCardIdByName(cards, name) ==
    IF name # NULL /\ \E i \in DOMAIN cards : cards[i].name = name
    THEN CHOOSE i \in DOMAIN cards : cards[i].name = name
    ELSE NoId

\* the row add_character_card writes: all columns of parsed_card
CardRow(parsed_card) == [k \in CharacterCardsColumns |-> parsed_card[k]]

\* UPDATE CharacterCards SET <every column but name> WHERE id = ?
UpdateCardById(cards, id, parsed_card) ==
    [i \in DOMAIN cards |->
        IF i = id
        THEN [k \in CharacterCardsColumns |->
                IF k = "name" THEN cards[i].name ELSE parsed_card[k]]
        ELSE cards[i]]

\* UpsertWrite of a handler that runs INSERT OR REPLACE INTO CharacterCards:
\* the card of the name is deleted and the record inserted under a new id
UpsertWriteReplace(cards, seq, parsed_card, row) ==
    IF "image" \notin DOMAIN parsed_card
    THEN [cards |-> cards, seq |-> seq, ret |-> NoId, err |-> "KeyError"]
    ELSE LET ins == InsertCharacterCards(DeleteRows(cards, {row} \ {NoId}), seq,
                        CardRow(parsed_card))
         IN  [cards |-> IF ins.err = "" THEN ins.cards ELSE cards,
              seq |-> ins.seq, ret |-> ins.id, err |-> ins.err]

\* the second half of add_character_card, after the SELECT returned row:
\* builds the parameter tuple (parsed_card['image'] raises KeyError when the
\* key is missing), runs the UPDATE or the INSERT, commits
UpsertWrite(cards, seq, parsed_card, row) ==
    IF "image" \notin DOMAIN parsed_card
    THEN [cards |-> cards, seq |-> seq, ret |-> NoId, err |-> "KeyError"]
    ELSE IF row # NoId
    THEN [cards |-> UpdateCardById(cards, row, parsed_card), seq |-> seq,
          ret |-> row, err |-> ""]
    ELSE LET ins == InsertCharacterCards(cards, seq, CardRow(parsed_card))
         IN  [cards |-> ins.cards, seq |-> ins.seq, ret |-> ins.id, err |-> ins.err]

\* the write of an upsert stays within the ids the model issues
WithinCardBound(w) == w.seq <= MaxCards

\* add_character_card as seen by a single caller: SELECT and write together
add_character_card(card_data) ==
    LET parsed_card == parse_character_card(card_data)
        row == SelectCardIdByName(CharacterCards, parsed_card.name)
        w == UpsertWrite(CharacterCards, card_seq, parsed_card, row)
    IN  /\ WithinCardBound(w)
        /\ CharacterCards' = w.cards
        /\ card_seq' = w.seq
        /\ last' = [op |-> "add_character_card", card_data |-> card_data,
                    ret |-> w.ret, err |-> w.err, raised |-> ""]
        /\ UNCHANGED << sqlite_master, CharacterChats, chat_seq, ChatKeywords, CharacterChats_fts, pc >>

\* add_character_card on connection c, first half: the SELECT
add_character_card_select(c, card_data) ==
    /\ pc[c] = Idle
    /\ pc' = [pc EXCEPT ![c] =
                [at |-> "selected", card_data |-> card_data,
                 row |-> SelectCardIdByName(CharacterCards,
                            parse_character_card(card_data).name)]]
    /\ UNCHANGED << store, last >>

\* add_character_card on connection c, second half: the write and the commit
add_character_card_write(c) ==
    /\ pc[c].at = "selected"
    /\ LET w == UpsertWrite(CharacterCards, card_seq,
                    parse_character_card(pc[c].card_data), pc[c].row)
       IN  /\ WithinCardBound(w)
           /\ CharacterCards' = w.cards
           /\ card_seq' = w.seq
           /\ last' = [op |-> "add_character_card", card_data |-> pc[c].card_data,
                       ret |-> w.ret, err |-> w.err, raised |-> ""]
    /\ pc' = [pc EXCEPT ![c] = Idle]
    /\ UNCHANGED << sqlite_master, CharacterChats, chat_seq, ChatKeywords, CharacterChats_fts >>

\* get_character_card_by_id: the row as a dictionary with its id, or None
\* (None also for an argument that is neither an int nor a dict)
GetCard(cards, character_id) ==
    IF character_id \in DOMAIN cards
    THEN << [id |-> character_id, row |-> cards[character_id]] >>
    ELSE << >>

get_character_card_by_id(character_id) ==
    /\ last' = [op |-> "get_character_card_by_id", character_id |-> character_id,
                ret |-> GetCard(CharacterCards, character_id), err |-> "", raised |-> ""]
    /\ UNCHANGED << store, pc >>

\* the columns the UPDATE of update_character_card assigns
UpdateCardColumns ==
    {"name", "description", "personality", "scenario", "image",
     "post_history_instructions", "first_message"}

\* the values it binds to them
UpdateCardValues(card_data) ==
    [k \in UpdateCardColumns |->
        CASE k = "post_history_instructions" -> DictGet(card_data, k, "")
          [] k = "first_message" -> DictGet(card_data, k, "Hello! I'm ready to chat.")
          [] OTHER -> DictGet(card_data, k, NULL)]

\* update_character_card: the statement is compiled against the schema
\* first; a column the table does not have is an OperationalError, which the
\* handler does not catch.  Otherwise the UPDATE runs under the constraints
\* of name and reports rowcount > 0
UpdateCard(cards, character_id, card_data) ==
    LET vals == UpdateCardValues(card_data)
    IN  IF ~ (UpdateCardColumns \subseteq CharacterCardsColumns)
        THEN [cards |-> cards, ret |-> FALSE, err |-> "", raised |-> "OperationalError"]
        ELSE IF character_id \notin DOMAIN cards
        THEN [cards |-> cards, ret |-> FALSE, err |-> "", raised |-> ""]
        ELSE IF CardConstraint(cards, character_id, vals.name) # ""
        THEN [cards |-> cards, ret |-> FALSE, err |-> "IntegrityError", raised |-> ""]
        ELSE [cards |-> [cards EXCEPT ![character_id] =
                            [k \in CharacterCardsColumns |->
                                IF k \in UpdateCardColumns THEN vals[k] ELSE @[k]]],
              ret |-> TRUE, err |-> "", raised |-> ""]

update_character_card(character_id, card_data) ==
    LET u == UpdateCard(CharacterCards, character_id, card_data)
    IN  /\ CharacterCards' = u.cards
        /\ last' = [op |-> "update_character_card", character_id |-> character_id,
                    card_data |-> card_data, ret |-> u.ret, err |-> u.err,
                    raised |-> u.raised]
        /\ UNCHANGED << sqlite_master, card_seq, CharacterChats, chat_seq, ChatKeywords,
                        CharacterChats_fts, pc >>

\* ids of the chats of a character
ChatsOf(chats, character_id) ==
    {i \in DOMAIN chats : chats[i].character_id = character_id}

\* ON DELETE CASCADE of ChatKeywords.chat_id, honoured only under foreign_keys
CascadeKeywords(kws, gone) ==
    IF foreign_keys THEN SelectSeq(kws, LAMBDA r : r[1] \notin gone) ELSE kws

\* delete_character_card reporting whether either DELETE removed a row
delete_character_card_any_rowcount(character_id) ==
    LET gone == ChatsOf(CharacterChats, character_id)
        chats == DeleteRows(CharacterChats, gone)
    IN  /\ CharacterChats' = chats
        /\ CharacterChats_fts' = FireDeleteTrigger(CharacterChats_fts, chats, gone)
        /\ ChatKeywords' = CascadeKeywords(ChatKeywords, gone)
        /\ CharacterCards' = DeleteRows(CharacterCards, {character_id})
        /\ last' = [op |-> "delete_character_card", character_id |-> character_id,
                    ret |-> (character_id \in DOMAIN CharacterCards \/ gone # {}),
                    err |-> "", raised |-> ""]
        /\ UNCHANGED << sqlite_master, card_seq, chat_seq, pc >>

\* delete_character_card: DELETE the chats of the character (trigger
\* CharacterChats_ad per row), DELETE the card, commit; reports the rowcount
\* of the second DELETE
delete_character_card(character_id) ==
    LET gone == ChatsOf(CharacterChats, character_id)
        chats == DeleteRows(CharacterChats, gone)
    IN  /\ CharacterChats' = chats
        /\ CharacterChats_fts' = FireDeleteTrigger(CharacterChats_fts, chats, gone)
        /\ ChatKeywords' = CascadeKeywords(ChatKeywords, gone)
        /\ CharacterCards' = DeleteRows(CharacterCards, {character_id})
        /\ last' = [op |-> "delete_character_card", character_id |-> character_id,
                    ret |-> (character_id \in DOMAIN CharacterCards),
                    err |-> "", raised |-> ""]
        /\ UNCHANGED << sqlite_master, card_seq, chat_seq, pc >>

(***************************************************************************)
(* Chats.                                                                  *)
(***************************************************************************)
\* a Python bool bound to a parameter of a statement: sqlite3 stores the
\* integer it is, and a SELECT reads the integer back
AdaptBool(b) == IF b THEN 1 ELSE 0

\* INSERT INTO CharacterChats of a table whose id is INTEGER PRIMARY KEY
\* without AUTOINCREMENT: the new rowid is the successor of the largest
\* rowid stored, and seq counts the inserts
InsertCharacterChatsRowid(cards, chats, seq, idx, row) ==
    LET id == IF DOMAIN chats = {} THEN 1
              ELSE 1 + CHOOSE i \in DOMAIN chats : \A j \in DOMAIN chats : j <= i
        content == id :> row @@ chats
    IN  [chats |-> content, seq |-> seq + 1,
         idx |-> CharacterChats_ai(idx, content, id),
         id |-> id, err |-> ""]

\* INSERT INTO CharacterChats: the foreign key on character_id is checked
\* only under foreign_keys; trigger CharacterChats_ai follows the insert;
\* id INTEGER PRIMARY KEY AUTOINCREMENT takes the successor of the
\* sqlite_sequence entry
InsertCharacterChats(cards, chats, seq, idx, row) ==
    IF foreign_keys /\ row.character_id \notin DOMAIN cards
    THEN [chats |-> chats, seq |-> seq, idx |-> idx, id |-> NoId,
          err |-> "IntegrityError"]
    ELSE LET content == (seq + 1) :> row @@ chats
         IN  [chats |-> content, seq |-> seq + 1,
              idx |-> CharacterChats_ai(idx, content, seq + 1),
              id |-> seq + 1, err |-> ""]

\* keyword.strip() without the lower()
NormalizeKeywordStripOnly(keyword) == Strip(keyword)

\* keyword.strip().lower()
NormalizeKeyword(keyword) == Lower(Strip(keyword))

\* the (chat_id, keyword) records of add_character_chat
KeywordRecords(chat_id, keywords) ==
    [i \in DOMAIN keywords |-> << chat_id, NormalizeKeyword(keywords[i]) >>]

\* add_character_chat: INSERT the chat, INSERT its keywords, commit; a failed
\* INSERT leaves the transaction uncommitted and returns None
add_character_chat(character_id, conversation_name, chat_history, keywords, is_snapshot) ==
    LET row == [character_id |-> character_id,
                conversation_name |-> conversation_name,
                chat_history |-> JsonDumps(chat_history),
                is_snapshot |-> AdaptBool(is_snapshot)]
        ins == InsertCharacterChats(CharacterCards, CharacterChats, chat_seq,
                                    CharacterChats_fts, row)
    IN  /\ ins.seq <= MaxChats
        /\ CharacterChats' = ins.chats
        /\ chat_seq' = ins.seq
        /\ CharacterChats_fts' = ins.idx
        /\ ChatKeywords' = IF ins.err = "" /\ Len(keywords) > 0
                           THEN ChatKeywords \o KeywordRecords(ins.id, keywords)
                           ELSE ChatKeywords
        /\ last' = [op |-> "add_character_chat", character_id |-> character_id,
                    conversation_name |-> conversation_name,
                    chat_history |-> chat_history, keywords |-> keywords,
                    is_snapshot |-> is_snapshot,
                    ret |-> ins.id, err |-> ins.err, raised |-> ""]
        /\ UNCHANGED << sqlite_master, CharacterCards, card_seq, pc >>

\* GetChat of a handler that builds its result without the test of the row
\* fetchone returned
GetChatUnchecked(chats, chat_id) ==
    << [id |-> chat_id,
        character_id |-> IF chat_id \in DOMAIN chats
                         THEN chats[chat_id].character_id ELSE NULL,
        conversation_name |-> IF chat_id \in DOMAIN chats
                              THEN chats[chat_id].conversation_name ELSE NULL,
        chat_history |-> IF chat_id \in DOMAIN chats
                         THEN JsonLoads(chats[chat_id].chat_history) ELSE NULL,
        is_snapshot |-> IF chat_id \in DOMAIN chats
                        THEN chats[chat_id].is_snapshot ELSE NULL] >>

\* get_character_chat_by_id: the row with its history decoded, or None
GetChat(chats, chat_id) ==
    IF chat_id \in DOMAIN chats
    THEN << [id |-> chat_id,
             character_id |-> chats[chat_id].character_id,
             conversation_name |-> chats[chat_id].conversation_name,
             chat_history |-> JsonLoads(chats[chat_id].chat_history),
             is_snapshot |-> chats[chat_id].is_snapshot] >>
    ELSE << >>

get_character_chat_by_id(chat_id) ==
    /\ last' = [op |-> "get_character_chat_by_id", chat_id |-> chat_id,
                ret |-> GetChat(CharacterChats, chat_id), err |-> "", raised |-> ""]
    /\ UNCHANGED << store, pc >>

\* update_character_chat without conn.commit(): close() rolls the UPDATE
\* back, and the handler still returns rowcount > 0
update_character_chat_uncommitted(chat_id, chat_history) ==
    /\ last' = [op |-> "update_character_chat", chat_id |-> chat_id,
                chat_history |-> chat_history,
                ret |-> chat_id \in DOMAIN CharacterChats,
                err |-> "", raised |-> ""]
    /\ UNCHANGED << store, pc >>

\* update_character_chat: UPDATE chat_history WHERE id = ? (trigger
\* CharacterChats_au on the row), commit, rowcount > 0
update_character_chat(chat_id, chat_history) ==
    LET hit == chat_id \in DOMAIN CharacterChats
        chats == IF hit
                 THEN [CharacterChats EXCEPT
                        ![chat_id].chat_history = JsonDumps(chat_history)]
                 ELSE CharacterChats
    IN  /\ CharacterChats' = chats
        /\ CharacterChats_fts' =
              IF hit THEN CharacterChats_au(CharacterChats_fts, chats, chat_id)
              ELSE CharacterChats_fts
        /\ last' = [op |-> "update_character_chat", chat_id |-> chat_id,
                    chat_history |-> chat_history, ret |-> hit,
                    err |-> "", raised |-> ""]
        /\ UNCHANGED << sqlite_master, CharacterCards, card_seq, chat_seq, ChatKeywords, pc >>

\* delete_character_chat: DELETE WHERE id = ? (trigger CharacterChats_ad on
\* the row), commit, rowcount > 0
delete_character_chat(chat_id) ==
    LET gone == {chat_id} \cap DOMAIN CharacterChats
        chats == DeleteRows(CharacterChats, gone)
    IN  /\ CharacterChats' = chats
        /\ CharacterChats_fts' = FireDeleteTrigger(CharacterChats_fts, chats, gone)
        /\ ChatKeywords' = CascadeKeywords(ChatKeywords, gone)
        /\ last' = [op |-> "delete_character_chat", chat_id |-> chat_id,
                    ret |-> (gone # {}), err |-> "", raised |-> ""]
        /\ UNCHANGED << sqlite_master, CharacterCards, card_seq, chat_seq, pc >>

RECURSIVE SortedSeq(_)
\* the elements of a set of integers in increasing order
SortedSeq(S) ==
    IF S = {} THEN << >>
    ELSE LET m == CHOOSE x \in S : \A y \in S : x <= y
         IN  << m >> \o SortedSeq(S \ {m})

\* get_character_chats without the WHERE clause on character_id
GetCharacterChatsAll(chats, character_id) ==
    LET ids == SortedSeq(DOMAIN chats)
    IN  [i \in DOMAIN ids |->
            [id |-> ids[i],
             character_id |-> chats[ids[i]].character_id,
             conversation_name |-> chats[ids[i]].conversation_name,
             chat_history |-> chats[ids[i]].chat_history,
             is_snapshot |-> chats[ids[i]].is_snapshot]]

\* get_character_chats: SELECT * FROM CharacterChats [WHERE character_id =
\* ?], the rows as stored (chat_history undecoded), listed by id
GetCharacterChats(chats, character_id) ==
    LET ids == SortedSeq({r \in DOMAIN chats :
                    character_id = NoId \/ chats[r].character_id = character_id})
    IN  [i \in DOMAIN ids |->
            [id |-> ids[i],
             character_id |-> chats[ids[i]].character_id,
             conversation_name |-> chats[ids[i]].conversation_name,
             chat_history |-> chats[ids[i]].chat_history,
             is_snapshot |-> chats[ids[i]].is_snapshot]]

get_character_chats(character_id) ==
    /\ last' = [op |-> "get_character_chats", character_id |-> character_id,
                ret |-> GetCharacterChats(CharacterChats, character_id),
                err |-> "", raised |-> ""]
    /\ UNCHANGED << store, pc >>

(***************************************************************************)
(* Keyword lookup.                                                         *)
(***************************************************************************)
\* the elements of a list
Range(seq) == {seq[i] : i \in DOMAIN seq}

\* the rows of ChatKeywords that WHERE keyword = ? OR keyword = ? ... keeps
KeywordRows(kws, keywords) == {j \in DOMAIN kws : kws[j][2] \in Range(keywords)}

RECURSIVE SeqOfRows(_, _)
\* the chat_id of every row of rows, in table order
SeqOfRows(kws, rows) ==
    IF rows = {} THEN << >>
    ELSE LET j == CHOOSE x \in rows : \A y \in rows : x <= y
         IN  << kws[j][1] >> \o SeqOfRows(kws, rows \ {j})

\* the SELECT of fetch_keywords_for_chats without DISTINCT
SelectChatIdsAll(kws, keywords) == SeqOfRows(kws, KeywordRows(kws, keywords))

\* SELECT DISTINCT chat_id FROM ChatKeywords WHERE keyword = ? OR ...
SelectChatIds(kws, keywords) ==
    SortedSeq({kws[j][1] : j \in KeywordRows(kws, keywords)})

\* fetch_keywords_for_chats: [] before any connection is opened when the
\* list is empty, otherwise the chat ids the SELECT yields (listed by id);
\* opened tells whether sqlite3.connect was reached
FetchKeywordsForChats(kws, keywords) ==
    IF Len(keywords) = 0 THEN [ret |-> << >>, opened |-> FALSE]
    ELSE [ret |-> SelectChatIds(kws, keywords), opened |-> TRUE]

fetch_keywords_for_chats(keywords) ==
    LET f == FetchKeywordsForChats(ChatKeywords, keywords)
    IN  /\ last' = [op |-> "fetch_keywords_for_chats", keywords |-> keywords,
                    ret |-> f.ret, opened |-> f.opened, err |-> "", raised |-> ""]
        /\ UNCHANGED << store, pc >>

(***************************************************************************)
(* Search.                                                                 *)
(***************************************************************************)
\* queries FTS5 cannot parse
MalformedQueries == {"\""}

\* CharacterChats_fts MATCH ?: the rowids whose postings hold the term in
\* either column (a bare word is case-folded like the indexed text)
Fts5Match(idx, query) ==
    {r \in DOMAIN idx :
        Lower(query) \in idx[r].conversation_name \cup idx[r].chat_history}

\* SearchIds of a query that leaves out AND CharacterChats.character_id = ?
SearchIdsUnfiltered(idx, chats, query, character_id) ==
    Fts5Match(idx, query) \cap DOMAIN chats

\* the ids the join of the index matches with CharacterChats yields
SearchIds(idx, chats, query, character_id) ==
    {r \in Fts5Match(idx, query) \cap DOMAIN chats :
        character_id = NoId \/ chats[r].character_id = character_id}

\* SearchCharacterChats with a handler that reports the query the engine
\* rejects as a search without hits
SearchCharacterChatsNoErrorStatus(idx, chats, query, character_id) ==
    IF Strip(query) = ""
    THEN [results |-> << >>, status |-> [text |-> "Please enter a search query."]]
    ELSE LET ids == IF query \in MalformedQueries THEN << >>
                    ELSE SortedSeq(SearchIds(idx, chats, query, character_id))
         IN  [results |-> [i \in DOMAIN ids |->
                            [id |-> ids[i],
                             conversation_name |-> chats[ids[i]].conversation_name,
                             chat_history |-> chats[ids[i]].chat_history]],
              status |-> [text |-> "Found", count |-> Len(ids), query |-> query,
                          scope |-> IF character_id # NoId
                                    THEN "for the selected character"
                                    ELSE "across all characters"]]

\* search_character_chats: (results, status message).  The order of the hits
\* is bm25 rank in the code; the model lists them by id
SearchCharacterChats(idx, chats, query, character_id) ==
    IF Strip(query) = ""
    THEN [results |-> << >>, status |-> [text |-> "Please enter a search query."]]
    ELSE IF query \in MalformedQueries
    THEN [results |-> << >>, status |-> [text |-> "Error occurred during search"]]
    ELSE LET ids == SortedSeq(SearchIds(idx, chats, query, character_id))
         IN  [results |-> [i \in DOMAIN ids |->
                            [id |-> ids[i],
                             conversation_name |-> chats[ids[i]].conversation_name,
                             chat_history |-> chats[ids[i]].chat_history]],
              status |-> [text |-> "Found", count |-> Len(ids), query |-> query,
                          scope |-> IF character_id # NoId
                                    THEN "for the selected character"
                                    ELSE "across all characters"]]

\* search_character_chats with sqlite3.connect ahead of the test of the query
SearchOpensStoreAlways(query) == TRUE

\* whether search_character_chats gets as far as sqlite3.connect: the blank
\* query returns before
SearchOpensStore(query) == Strip(query) # ""

\* search_character_chats that has FTS5 rebuild the index from
\* CharacterChats before it runs the query
search_character_chats_rebuilding(query, character_id) ==
    LET rebuilt == [r \in DOMAIN CharacterChats |->
                        Fts5Terms(CharacterChats[r].conversation_name,
                                  CharacterChats[r].chat_history)]
    IN  /\ CharacterChats_fts' = rebuilt
        /\ last' = [op |-> "search_character_chats", query |-> query,
                    character_id |-> character_id,
                    ret |-> SearchCharacterChats(rebuilt, CharacterChats,
                                                 query, character_id),
                    opened |-> SearchOpensStore(query),
                    err |-> "", raised |-> ""]
        /\ UNCHANGED << sqlite_master, CharacterCards, card_seq, CharacterChats,
                        chat_seq, ChatKeywords, pc >>

search_character_chats(query, character_id) ==
    /\ last' = [op |-> "search_character_chats", query |-> query,
                character_id |-> character_id,
                ret |-> SearchCharacterChats(CharacterChats_fts, CharacterChats,
                                             query, character_id),
                opened |-> SearchOpensStore(query),
                err |-> "", raised |-> ""]
    /\ UNCHANGED << store, pc >>

\* the columns of CharacterChats_fts
IndexColumns == {"conversation_name", "chat_history"}

\* what a name in the fields of search_db resolves to in FROM
\* CharacterChats_fts JOIN CharacterChats: the table name of the index is
\* its hidden column and matches in every column, a column qualified by
\* the index matches in that column.  A column name of the index is a
\* column name of CharacterChats too ("ambiguous column name"), a column of
\* CharacterChats alone cannot be matched ("unable to use function MATCH"),
\* and any other name is "no such column"
ResolveField(field) ==
    CASE field = "CharacterChats_fts" -> IndexColumns
      [] field = "CharacterChats_fts.conversation_name" -> {"conversation_name"}
      [] field = "CharacterChats_fts.chat_history" -> {"chat_history"}
      [] OTHER -> {}

\* " AND ".join(fields) + " MATCH ?": the columns the query is matched in.
\* No field is a syntax error.  Of several fields only the last is matched;
\* the ones before it are operands of AND: the hidden column counts as
\* true, a text column as false
MatchClause(fields) ==
    IF fields = << >> \/ \E i \in DOMAIN fields : ResolveField(fields[i]) = {}
    THEN [err |-> "OperationalError", columns |-> {}]
    ELSE IF \A i \in 1 .. (Len(fields) - 1) : fields[i] = "CharacterChats_fts"
    THEN [err |-> "", columns |-> ResolveField(fields[Len(fields)])]
    ELSE [err |-> "", columns |-> {}]

\* whether every name in where_clause is a column of the statement's tables
\* (media_id is a column of neither: "no such column")
WhereResolves(where_clause) ==
    where_clause \in {"", "1", "CharacterChats.id > 2"}

\* AND (where_clause) on the row of CharacterChats with id r
WhereHolds(where_clause, chats, r) ==
    CASE where_clause = "" -> TRUE
      [] where_clause = "1" -> TRUE
      [] where_clause = "CharacterChats.id > 2" -> r > 2
      [] OTHER -> FALSE

\* the number of tokens FTS5 has recorded for rowid (the inputs repeat no
\* token within a column)
Fts5DocSize(idx, rowid) ==
    Cardinality(idx[rowid].conversation_name) + Cardinality(idx[rowid].chat_history)

RECURSIVE OrderByRank(_, _)
\* ORDER BY rank: bm25 of the one term of the query, which occurs once in
\* every hit, puts the entry with fewer tokens first; entries of equal rank
\* come in rowid order
OrderByRank(idx, S) ==
    IF S = {} THEN << >>
    ELSE LET m == CHOOSE x \in S : \A y \in S :
                    \/ Fts5DocSize(idx, x) < Fts5DocSize(idx, y)
                    \/ Fts5DocSize(idx, x) = Fts5DocSize(idx, y) /\ x <= y
         IN  << m >> \o OrderByRank(idx, S \ {m})

\* LIMIT ? OFFSET ? with offset = (page - 1) * results_per_page
LimitOffset(page, results_per_page) ==
    [limit |-> results_per_page, offset |-> (page - 1) * results_per_page]

\* search_db: the page of the hits as a list of rows; [] for a blank query
\* and for every statement the engine refuses
SearchDb(idx, chats, query, fields, where_clause, page, results_per_page) ==
    LET m == MatchClause(fields)
        hits == {r \in DOMAIN idx \cap DOMAIN chats :
                    /\ \E col \in m.columns : Lower(query) \in idx[r][col]
                    /\ WhereHolds(where_clause, chats, r)}
        ranked == OrderByRank(idx, hits)
        lo == LimitOffset(page, results_per_page)
        \* a negative OFFSET counts as 0
        first == (IF lo.offset < 0 THEN 0 ELSE lo.offset) + 1
        end == IF first + lo.limit - 1 < Len(ranked)
               THEN first + lo.limit - 1 ELSE Len(ranked)
        ids == SubSeq(ranked, first, end)
    IN  IF \/ Strip(query) = "" \/ m.err # "" \/ query \in MalformedQueries
           \/ ~ WhereResolves(where_clause)
        THEN << >>
        ELSE [i \in DOMAIN ids |->
                [id |-> ids[i],
                 conversation_name |-> chats[ids[i]].conversation_name,
                 chat_history |-> chats[ids[i]].chat_history]]

search_db(query, fields, where_clause, page, results_per_page) ==
    /\ last' = [op |-> "search_db", query |-> query, fields |-> fields,
                where_clause |-> where_clause, page |-> page,
                results_per_page |-> results_per_page,
                ret |-> SearchDb(CharacterChats_fts, CharacterChats, query,
                                 fields, where_clause, page, results_per_page),
                err |-> "", raised |-> ""]
    /\ UNCHANGED << store, pc >>

\* " OR ".join(f"media_id = {chat_id}" ...), "1" for an empty list.  The
\* ids written into the text matter once the column they are compared with
\* resolves; the model keeps the text up to the ids
WhereClauseOfChatIds(relevant_chat_ids) ==
    IF relevant_chat_ids = << >> THEN "1" ELSE "media_id = ? OR ..."

\* perform_full_text_search_chat: search_db in the field "content" under
\* the clause on media_id, the hits whose id is in relevant_chat_ids, each
\* as {content, metadata: {media_id}}.  A hit has the keys id,
\* conversation_name and chat_history: result['content'] raises KeyError,
\* and every exception is answered with []
PerformFullTextSearchChat(idx, chats, query, relevant_chat_ids, page, results_per_page) ==
    LET fts_results == SearchDb(idx, chats, query, << "content" >>,
                           WhereClauseOfChatIds(relevant_chat_ids), page,
                           results_per_page)
        kept == SelectSeq(fts_results, LAMBDA result :
                    result.id \in {relevant_chat_ids[i] : i \in DOMAIN relevant_chat_ids})
    IN  IF \E i \in DOMAIN kept : "content" \notin DOMAIN kept[i]
        THEN << >>
        ELSE [i \in DOMAIN kept |->
                [content |-> kept[i].content,
                 metadata |-> [media_id |-> kept[i].id]]]

perform_full_text_search_chat(query, relevant_chat_ids, page, results_per_page) ==
    /\ last' = [op |-> "perform_full_text_search_chat", query |-> query,
                relevant_chat_ids |-> relevant_chat_ids, page |-> page,
                results_per_page |-> results_per_page,
                ret |-> PerformFullTextSearchChat(CharacterChats_fts, CharacterChats,
                            query, relevant_chat_ids, page, results_per_page),
                err |-> "", raised |-> ""]
    /\ UNCHANGED << store, pc >>

(***************************************************************************)
(* The writing handlers statement by statement.  sqlite3.connect leaves    *)
(* isolation_level at its default: the module opens a transaction before   *)
(* the first INSERT / UPDATE / DELETE of a connection and keeps it open    *)
(* until commit(); close() without commit() rolls it back.  The statements *)
(* of the open transaction work on the connection's copy of the store      *)
(* (work); the committed store is what the variables hold, and what every  *)
(* other connection reads.  The writer holds the write lock from its first *)
(* statement on, so no second transaction starts before it returns.        *)
(***************************************************************************)
\* the committed store as one value
Committed ==
    [cards |-> CharacterCards, card_seq |-> card_seq, chats |-> CharacterChats,
     chat_seq |-> chat_seq, kws |-> ChatKeywords, idx |-> CharacterChats_fts]

\* the commit of db
Install(db) ==
    /\ CharacterCards' = db.cards
    /\ card_seq' = db.card_seq
    /\ CharacterChats' = db.chats
    /\ chat_seq' = db.chat_seq
    /\ ChatKeywords' = db.kws
    /\ CharacterChats_fts' = db.idx
    /\ UNCHANGED sqlite_master

\* a connection in autocommit mode (isolation_level=None)
isolation_level_None == "NONE"

\* isolation_level of the connections sqlite3.connect(chat_DB_PATH) returns
isolation_level == "DEFERRED"

\* the calls of the writing handlers, as records of their arguments
DeleteCardCall(character_id) ==
    [op |-> "delete_character_card", character_id |-> character_id]
AddChatCall(character_id, conversation_name, chat_history, keywords, is_snapshot) ==
    [op |-> "add_character_chat", character_id |-> character_id,
     conversation_name |-> conversation_name, chat_history |-> chat_history,
     keywords |-> keywords, is_snapshot |-> is_snapshot]
UpdateChatCall(chat_id, chat_history) ==
    [op |-> "update_character_chat", chat_id |-> chat_id,
     chat_history |-> chat_history]
DeleteChatCall(chat_id) ==
    [op |-> "delete_character_chat", chat_id |-> chat_id]

\* the steps of a call between connect and return, in program order
Program(call) ==
    CASE call.op = "delete_character_card" ->
            << [sql |-> "DELETE FROM CharacterChats WHERE character_id"],
               [sql |-> "DELETE FROM CharacterCards WHERE id"],
               [sql |-> "COMMIT"] >>
      [] call.op = "add_character_chat" ->
            << [sql |-> "INSERT INTO CharacterChats"] >>
            \o (IF Len(call.keywords) > 0
                THEN << [sql |-> "keyword_records"] >>
                     \o [i \in DOMAIN call.keywords |->
                            [sql |-> "INSERT INTO ChatKeywords", i |-> i]]
                ELSE << >>)
            \o << [sql |-> "COMMIT"] >>
      [] call.op = "update_character_chat" ->
            << [sql |-> "UPDATE CharacterChats SET chat_history"],
               [sql |-> "COMMIT"] >>
      [] call.op = "delete_character_chat" ->
            << [sql |-> "DELETE FROM CharacterChats WHERE id"],
               [sql |-> "COMMIT"] >>

\* the connection after one more step of its call: t.work is its copy of
\* the store, t.rowcount and t.chat_id what the cursor and the handler hold,
\* t.raised the exception the step raised
ExecStatement(stmt, t) ==
    LET call == t.call
        db == t.work
    IN  CASE stmt.sql = "DELETE FROM CharacterChats WHERE character_id" ->
                LET gone == ChatsOf(db.chats, call.character_id)
                    chats == DeleteRows(db.chats, gone)
                IN  [t EXCEPT !.n = @ + 1, !.rowcount = Cardinality(gone),
                        !.work.chats = chats,
                        !.work.idx = FireDeleteTrigger(db.idx, chats, gone),
                        !.work.kws = CascadeKeywords(db.kws, gone)]
          [] stmt.sql = "DELETE FROM CharacterCards WHERE id" ->
                [t EXCEPT !.n = @ + 1,
                    !.rowcount = Cardinality({call.character_id} \cap DOMAIN db.cards),
                    !.work.cards = DeleteRows(db.cards, {call.character_id})]
          [] stmt.sql = "INSERT INTO CharacterChats" ->
                LET ins == InsertCharacterChats(db.cards, db.chats, db.chat_seq, db.idx,
                              [character_id |-> call.character_id,
                               conversation_name |-> call.conversation_name,
                               chat_history |-> JsonDumps(call.chat_history),
                               is_snapshot |-> AdaptBool(call.is_snapshot)])
                IN  [t EXCEPT !.n = @ + 1, !.rowcount = 1, !.chat_id = ins.id,
                        !.raised = ins.err,
                        !.work.chats = ins.chats, !.work.chat_seq = ins.seq,
                        !.work.idx = ins.idx]
          [] stmt.sql = "keyword_records" ->
                [t EXCEPT !.n = @ + 1,
                    !.raised = IF NULL \in Range(call.keywords)
                               THEN "AttributeError" ELSE ""]
          [] stmt.sql = "INSERT INTO ChatKeywords" ->
                [t EXCEPT !.n = @ + 1, !.rowcount = 1,
                    !.work.kws = Append(db.kws,
                        << t.chat_id, NormalizeKeyword(call.keywords[stmt.i]) >>)]
          [] stmt.sql = "UPDATE CharacterChats SET chat_history" ->
                LET hit == call.chat_id \in DOMAIN db.chats
                    chats == IF hit
                             THEN [db.chats EXCEPT ![call.chat_id].chat_history =
                                        JsonDumps(call.chat_history)]
                             ELSE db.chats
                IN  [t EXCEPT !.n = @ + 1, !.rowcount = IF hit THEN 1 ELSE 0,
                        !.work.chats = chats,
                        !.work.idx = IF hit
                                     THEN CharacterChats_au(db.idx, chats, call.chat_id)
                                     ELSE db.idx]
          [] stmt.sql = "DELETE FROM CharacterChats WHERE id" ->
                LET gone == {call.chat_id} \cap DOMAIN db.chats
                    chats == DeleteRows(db.chats, gone)
                IN  [t EXCEPT !.n = @ + 1, !.rowcount = Cardinality(gone),
                        !.work.chats = chats,
                        !.work.idx = FireDeleteTrigger(db.idx, chats, gone),
                        !.work.kws = CascadeKeywords(db.kws, gone)]
          [] stmt.sql = "COMMIT" -> [t EXCEPT !.n = @ + 1]

\* what the call returns once its connection is in state t: sqlite3.Error
\* is caught and turned into None / False, anything else propagates
CallResult(t) ==
    LET caught == t.raised \in {"IntegrityError", "OperationalError"}
        ok == t.raised = ""
    IN  t.call @@
        [ret |-> IF t.call.op = "add_character_chat"
                 THEN (IF ok THEN t.chat_id ELSE NoId)
                 ELSE ok /\ t.rowcount > 0,
         err |-> IF caught THEN t.raised ELSE "",
         raised |-> IF caught THEN "" ELSE t.raised]

\* a connection that has just been opened for call
Connected(call) ==
    [at |-> "tx", call |-> call, n |-> 0, work |-> Committed, pre |-> Committed,
     rowcount |-> 0, chat_id |-> NoId, raised |-> ""]

\* no other connection holds the write lock
LockFree(c) ==
    isolation_level = "NONE" \/ \A o \in DOMAIN pc \ {c} : pc[o].at # "tx"

\* connection c in state t runs the next step of its call
TxStep(c, t) ==
    LET stmt == Program(t.call)[t.n + 1]
        \* in autocommit mode every statement runs on the committed store
        u == ExecStatement(stmt, IF isolation_level = "NONE"
                                 THEN [t EXCEPT !.work = Committed] ELSE t)
        returns == u.raised # "" \/ stmt.sql = "COMMIT"
    IN  /\ IF u.raised = "" /\ (stmt.sql = "COMMIT" \/ isolation_level = "NONE")
           THEN Install(u.work)
           ELSE UNCHANGED store
        /\ pc' = [pc EXCEPT ![c] = IF returns THEN Idle ELSE u]
        /\ last' = IF returns THEN CallResult(u) ELSE last

\* connection c starts call: connect and the first statement, which takes
\* the write lock
tx_begin(c, call) ==
    /\ pc[c] = Idle
    /\ LockFree(c)
    /\ TxStep(c, Connected(call))

\* connection c runs the next step of the call it is in
tx_execute(c) ==
    /\ pc[c].at = "tx"
    /\ TxStep(c, pc[c])

\* the process of connection c stops: the open transaction is never
\* committed and the call never returns
tx_crash(c) ==
    /\ pc[c].at = "tx"
    /\ pc' = [pc EXCEPT ![c] = Idle]
    /\ UNCHANGED << store, last >>

\* the result of a call that met sqlite3.OperationalError in the engine
\* (disk I/O error, database is locked) in state t: the handler's except
\* sqlite3.Error returns None / False
FaultResult(t) ==
    [fault |-> TRUE] @@ CallResult([t EXCEPT !.raised = "OperationalError"])

\* the first statement of call fails on connection c: nothing has run
tx_begin_fault(c, call) ==
    /\ pc[c] = Idle
    /\ last' = FaultResult(Connected(call))
    /\ UNCHANGED << store, pc >>

\* the next statement of the call of connection c, or its commit, fails:
\* close() discards the open transaction
tx_fault(c) ==
    /\ pc[c].at = "tx"
    /\ pc' = [pc EXCEPT ![c] = Idle]
    /\ last' = FaultResult(pc[c])
    /\ UNCHANGED store

(***************************************************************************)
(* Writers that contend for the write lock.  sqlite3.connect leaves the    *)
(* timeout at its default of five seconds: a statement that needs the lock *)
(* while another connection holds it waits that long and then raises       *)
(* sqlite3.OperationalError, "database is locked".                         *)
(***************************************************************************)
\* a connection that has been opened for call and has run no statement yet
Waiting(call) == [Connected(call) EXCEPT !.at = "connected"]

\* connection c is in a call
InCall(c) == pc[c].at \in {"connected", "tx"}

\* connection c starts call: sqlite3.connect
tx_connect(c, call) ==
    /\ pc[c] = Idle
    /\ pc' = [pc EXCEPT ![c] = Waiting(call)]
    /\ UNCHANGED << store, last >>

\* the first statement of the call of connection c gets the write lock
tx_first(c) ==
    /\ pc[c].at = "connected"
    /\ LockFree(c)
    /\ TxStep(c, Connected(pc[c].call))

\* tx_busy of a handler that runs its statement again whenever the store is
\* locked
tx_busy_retry(c) ==
    /\ pc[c].at = "connected"
    /\ ~ LockFree(c)
    /\ UNCHANGED vars

\* the first statement of the call of connection c finds the store locked
\* until the timeout has passed: the handler returns None / False
tx_busy(c) ==
    /\ pc[c].at = "connected"
    /\ ~ LockFree(c)
    /\ pc' = [pc EXCEPT ![c] = Idle]
    /\ last' = FaultResult(pc[c])
    /\ UNCHANGED store

\* the next step of the call connection c is in
CallStep(c) == tx_first(c) \/ tx_busy(c) \/ tx_execute(c)

(***************************************************************************)
(* Specifications.  Every specification runs the same handlers; each draws *)
(* the inputs of the part of the store it is about.                        *)
(***************************************************************************)
\* chats and their index: one caller at a time, every handler one step
Next ==
    \/ \E d \in PlainCardInputs : add_character_card(d)
    \/ \E i \in CardIds : delete_character_card(i)
    \/ \E i \in CardIds, n \in NameInputs, h \in HistInputs :
            add_character_chat(i, n, h, << >>, FALSE)
    \/ \E i \in ChatIds : get_character_chat_by_id(i)
    \/ \E i \in ChatIds, h \in HistInputs : update_character_chat(i, h)
    \/ \E i \in ChatIds : delete_character_chat(i)
    \/ \E q \in QueryInputs, i \in CardIds \cup {NoId} : search_character_chats(q, i)

Spec == Init /\ [][Next]_vars

\* character cards: one caller at a time
NextCards ==
    \/ \E d \in CardInputs : add_character_card(d)
    \/ \E i \in CardIds \cup {NoId} : get_character_card_by_id(i)
    \/ \E i \in CardIds, d \in CardInputs : update_character_card(i, d)
    \/ \E i \in CardIds : delete_character_card(i)

SpecCards == Init /\ [][NextCards]_vars

\* chats with keywords
NextKw ==
    \/ add_character_card(CardAdaEmpty)
    \/ \E i \in CardIds : delete_character_card(i)
    \/ \E i \in CardIds, n \in NameInputs, k \in KeywordInputs :
            add_character_chat(i, n, HistHello, k, FALSE)
    \/ \E i \in ChatIds : delete_character_chat(i)

SpecKw == Init /\ [][NextKw]_vars

\* two connections working on character cards, add_character_card in its
\* two transactions
InitConc ==
    /\ sqlite_master = InitializedSchema
    /\ CharacterCards = << >>
    /\ card_seq = 0
    /\ CharacterChats = << >>
    /\ chat_seq = 0
    /\ ChatKeywords = << >>
    /\ CharacterChats_fts = << >>
    /\ pc = [c \in Conns |-> Idle]
    /\ last = NoCall

NextConc ==
    \/ \E c \in Conns, d \in CardInputs : add_character_card_select(c, d)
    \/ \E c \in Conns : add_character_card_write(c)
    \/ \E i \in CardIds, d \in PlainCardInputs : update_character_card(i, d)
    \/ \E i \in CardIds : delete_character_card(i)

SpecConc == InitConc /\ [][NextConc]_vars

\* the writing handlers statement by statement on one connection, with
\* crashes, while other connections read the committed store
NextTx ==
    \/ (\A c \in DOMAIN pc : pc[c] = Idle) /\ add_character_card(CardAdaEmpty)
    \/ \E c \in DOMAIN pc, i \in CardIds : tx_begin(c, DeleteCardCall(i))
    \/ \E c \in DOMAIN pc, i \in CardIds, k \in TxKeywordInputs :
            /\ chat_seq < MaxChats
            /\ tx_begin(c, AddChatCall(i, "intro", HistHello, k, FALSE))
    \/ \E c \in DOMAIN pc, i \in ChatIds : tx_begin(c, UpdateChatCall(i, HistBye))
    \/ \E c \in DOMAIN pc, i \in ChatIds : tx_begin(c, DeleteChatCall(i))
    \/ \E c \in DOMAIN pc : tx_execute(c)
    \/ \E c \in DOMAIN pc : tx_crash(c)
    \/ get_character_card_by_id(1)
    \/ get_character_chat_by_id(1)
    \/ get_character_chats(NoId)
    \/ fetch_keywords_for_chats(<< "foo" >>)
    \/ search_character_chats("hello", NoId)

SpecTx == Init /\ [][NextTx]_vars

\* keyword lookups over chats that were added with keywords, some of them
\* deleted again
NextLookup ==
    \/ \E c \in DOMAIN pc, k \in TagInputs :
            /\ chat_seq < MaxTaggedChats
            /\ tx_begin(c, AddChatCall(1, "intro", HistHello, k, FALSE))
    \/ \E c \in DOMAIN pc, i \in TaggedChatIds : tx_begin(c, DeleteChatCall(i))
    \/ \E c \in DOMAIN pc : tx_execute(c)
    \/ \E k \in LookupInputs : fetch_keywords_for_chats(k)

SpecLookup == Init /\ [][NextLookup]_vars

\* searches over the chats of several characters, some of them deleted
NextSearch ==
    \/ \E c \in DOMAIN pc, i \in CardIds, h \in HistInputs :
            /\ chat_seq < MaxTaggedChats
            /\ tx_begin(c, AddChatCall(i, "intro", h, << >>, FALSE))
    \/ \E c \in DOMAIN pc, i \in TaggedChatIds : tx_begin(c, DeleteChatCall(i))
    \/ \E c \in DOMAIN pc : tx_execute(c)
    \/ \E q \in SearchQueryInputs, i \in CardIds \cup {NoId} :
            search_character_chats(q, i)

SpecSearch == Init /\ [][NextSearch]_vars

\* initialize_database statement by statement on a new file, with engine
\* faults, and again on the store the handlers have filled
NextSchema ==
    \/ \E c \in DOMAIN pc : initialize_database_begin(c)
    \/ \E c \in DOMAIN pc : initialize_database_execute(c)
    \/ \E c \in DOMAIN pc : initialize_database_fault(c)
    \/ /\ SchemaComplete
       /\ \A c \in DOMAIN pc : pc[c] = Idle
       /\ \/ add_character_card(CardAdaEmpty)
          \/ \E h \in HistInputs, k \in KeywordInputs :
                add_character_chat(1, "intro", h, k, FALSE)
          \/ \E i \in ChatIds : update_character_chat(i, HistBye)
          \/ \E i \in ChatIds : delete_character_chat(i)

SpecSchema == InitFile /\ [][NextSchema]_vars

\* the paged search over more chats than one page holds, one of them
\* deleted again
NextPages ==
    \/ \E c \in DOMAIN pc, h \in HistInputs :
            /\ chat_seq < MaxPagedChats
            /\ tx_begin(c, AddChatCall(1, "intro", h, << >>, FALSE))
    \/ \E c \in DOMAIN pc : tx_begin(c, DeleteChatCall(1))
    \/ \E c \in DOMAIN pc : tx_execute(c)
    \/ \E q \in PageQueryInputs, f \in FieldsInputs, w \in WhereInputs,
          p \in PageInputs : search_db(q, f, w, p, PageSize)

SpecPages == Init /\ [][NextPages]_vars

\* every handler, one caller at a time, on ids that name a row and on ids
\* that name none
NextHandlers ==
    \/ \E d \in {CardAdaEmpty, CardNoName} : add_character_card(d)
    \/ \E i \in CardIds : get_character_card_by_id(i)
    \/ \E i \in CardIds : update_character_card(i, CardAdaFull)
    \/ \E i \in CardIds : delete_character_card(i)
    \/ \E i \in CardIds, k \in KeywordInputs :
            add_character_chat(i, "intro", HistHello, k, FALSE)
    \/ \E i \in ChatIds : get_character_chat_by_id(i)
    \/ get_character_chats(NoId)
    \/ \E i \in ChatIds, h \in HistInputs : update_character_chat(i, h)
    \/ \E i \in ChatIds : delete_character_chat(i)
    \/ fetch_keywords_for_chats(<< "foo" >>)
    \/ \E q \in {"hello", "\""} : search_character_chats(q, NoId)
    \/ search_db("hello", << "CharacterChats_fts" >>, "", 1, PageSize)

SpecHandlers == Init /\ [][NextHandlers]_vars

\* the writing handlers statement by statement with engine faults
NextFault ==
    \/ (\A c \in DOMAIN pc : pc[c] = Idle) /\ add_character_card(CardAdaEmpty)
    \/ \E c \in DOMAIN pc, i \in CardIds : tx_begin(c, DeleteCardCall(i))
    \/ \E c \in DOMAIN pc, i \in CardIds, k \in KeywordInputs :
            /\ chat_seq < MaxChats
            /\ tx_begin(c, AddChatCall(i, "intro", HistHello, k, FALSE))
    \/ \E c \in DOMAIN pc, i \in ChatIds : tx_begin(c, UpdateChatCall(i, HistBye))
    \/ \E c \in DOMAIN pc, i \in ChatIds : tx_begin(c, DeleteChatCall(i))
    \/ \E c \in DOMAIN pc : tx_execute(c)
    \/ \E c \in DOMAIN pc : tx_fault(c)
    \/ \E c \in DOMAIN pc, i \in ChatIds : tx_begin_fault(c, DeleteChatCall(i))
    \/ \E c \in DOMAIN pc, i \in CardIds :
            tx_begin_fault(c, AddChatCall(i, "intro", HistHello, << >>, FALSE))

SpecFault == Init /\ [][NextFault]_vars

\* the add_character_chat calls that are running
AddingChats == {c \in DOMAIN pc : InCall(c) /\ pc[c].call.op = "add_character_chat"}

\* two connections that write chats at the same time; every call that is
\* running gets its next step in the end (the scheduler is fair, and the
\* timeout of a waiting statement passes).  Whether a call returns does not
\* depend on what it writes: the histories are empty.
NextLive ==
    \/ \E c \in Conns :
            /\ chat_seq + Cardinality(AddingChats) < MaxChats
            /\ tx_connect(c, AddChatCall(1, "intro", HistEmpty, << >>, FALSE))
    \/ \E c \in Conns : tx_connect(c, UpdateChatCall(1, HistEmpty))
    \/ \E c \in Conns : tx_connect(c, DeleteChatCall(1))
    \/ \E c \in Conns : tx_first(c)
    \/ \E c \in Conns : tx_busy(c)
    \/ \E c \in Conns : tx_execute(c)

SpecLive ==
    InitConc /\ [][NextLive]_vars /\ \A c \in Conns : WF_vars(CallStep(c))

\* cards and chats that are added, deleted and added again
NextIds ==
    \/ \E c \in DOMAIN pc :
            /\ chat_seq < MaxTaggedChats
            /\ tx_begin(c, AddChatCall(1, "intro", HistBye, << >>, FALSE))
    \/ \E c \in DOMAIN pc, i \in TaggedChatIds : tx_begin(c, DeleteChatCall(i))
    \/ \E c \in DOMAIN pc : tx_execute(c)
    \/ \E d \in {CardAdaEmpty, CardAdaFull, CardBob} :
            /\ \A c \in DOMAIN pc : pc[c] = Idle
            /\ add_character_card(d)
    \/ \E i \in CardIds :
            /\ \A c \in DOMAIN pc : pc[c] = Idle
            /\ delete_character_card(i)

SpecIds == Init /\ [][NextIds]_vars

\* cards that are written again while chats with keywords are stored
NextUpsert ==
    \/ \E d \in CardInputs : add_character_card(d)
    \/ \E i \in CardIds, k \in KeywordInputs :
            add_character_chat(i, "intro", HistBye, k, FALSE)
    \/ \E i \in ChatIds : update_character_chat(i, HistHello)

SpecUpsert == Init /\ [][NextUpsert]_vars

\* chats of a card, a snapshot with a keyword and a plain one, whose
\* histories are updated
NextUpdate ==
    \/ /\ \A c \in DOMAIN pc : pc[c] = Idle
       /\ add_character_card(CardAdaEmpty)
    \/ \E c \in DOMAIN pc :
            /\ chat_seq < MaxTaggedChats
            /\ \/ tx_begin(c, AddChatCall(1, "intro", HistHello, << " Foo " >>, TRUE))
               \/ tx_begin(c, AddChatCall(1, "second", HistHello, << >>, FALSE))
    \/ \E c \in DOMAIN pc, i \in TaggedChatIds, h \in HistInputs :
            tx_begin(c, UpdateChatCall(i, h))
    \/ \E c \in DOMAIN pc : tx_execute(c)

SpecUpdate == Init /\ [][NextUpdate]_vars

\* chats of two characters that are added and read back
NextRound ==
    \/ \E c \in DOMAIN pc, i \in CardIds, h \in HistInputs, b \in BOOLEAN :
            /\ chat_seq < MaxTaggedChats
            /\ tx_begin(c, AddChatCall(i, "intro", h, << >>, b))
    \/ \E c \in DOMAIN pc : tx_execute(c)
    \/ \E i \in TaggedChatIds : get_character_chat_by_id(i)
    \/ \E i \in CardIds \cup {NoId} : get_character_chats(i)

SpecRound == Init /\ [][NextRound]_vars

\* chats that are searched within lists of chat ids
NextFullText ==
    \/ \E c \in DOMAIN pc, n \in {"intro", "hello"}, h \in HistInputs :
            /\ chat_seq < MaxTaggedChats
            /\ tx_begin(c, AddChatCall(1, n, h, << >>, FALSE))
    \/ \E c \in DOMAIN pc, i \in TaggedChatIds : tx_begin(c, DeleteChatCall(i))
    \/ \E c \in DOMAIN pc : tx_execute(c)
    \/ \E q \in QueryInputs, r \in RelevantInputs :
            perform_full_text_search_chat(q, r, 1, PageSize)

SpecFullText == Init /\ [][NextFullText]_vars

(***************************************************************************)
(* Properties.                                                             *)
(***************************************************************************)
\* the terms a scan of a CharacterChats row finds in its two text columns
RowTerms(chats, r) ==
    Fts5Terms(chats[r].conversation_name, chats[r].chat_history)

\* the chats a linear scan of the table finds for a query term
LinearScan(chats, query) ==
    {r \in DOMAIN chats :
        Lower(query) \in RowTerms(chats, r).conversation_name
                         \cup RowTerms(chats, r).chat_history}

\* the queries that are search terms
TermQueries == {q \in QueryInputs : Strip(q) # "" /\ q \notin MalformedQueries}

\* C1 (index consistency): in every state the index holds, for every
\* existing chat, an entry with exactly the terms of the chat's current
\* conversation_name and chat_history, and a search for a term returns
\* exactly the chats a linear scan of CharacterChats finds for it.
IndexConsistent ==
    /\ \A r \in DOMAIN CharacterChats :
          Fts5Entry(CharacterChats_fts, r) = RowTerms(CharacterChats, r)
    /\ \A q \in TermQueries :
          SearchIds(CharacterChats_fts, CharacterChats, q, NoId)
              = LinearScan(CharacterChats, q)

\* C2 (referential invariant): every chat's character_id is the id of an
\* existing character card.
ChatsReferenceCharacters ==
    \A r \in DOMAIN CharacterChats :
        CharacterChats[r].character_id \in DOMAIN CharacterCards

\* C3: add_character_chat for a character_id that names no card returns
\* None and inserts no chat, no keyword row and no index entry.
AddChatUnknownCharacterFails ==
    [][ (last'.op = "add_character_chat"
            /\ last'.character_id \notin DOMAIN CharacterCards)
        => /\ last'.ret = NoId
           /\ CharacterChats' = CharacterChats
           /\ ChatKeywords' = ChatKeywords
           /\ CharacterChats_fts' = CharacterChats_fts ]_vars

\* C4 (cascade): delete_character_card of a character that has chats leaves
\* no chat of that character and no index entry of any of those chats;
\* get_character_chat_by_id gives None for each and no search returns them.
DeleteCharacterCascades ==
    [][ (last'.op = "delete_character_card"
            /\ last'.character_id \in DOMAIN CharacterCards
            /\ ChatsOf(CharacterChats, last'.character_id) # {})
        => /\ ChatsOf(CharacterChats', last'.character_id) = {}
           /\ \A r \in ChatsOf(CharacterChats, last'.character_id) :
                /\ r \notin DOMAIN CharacterChats_fts'
                /\ GetChat(CharacterChats', r) = << >>
                /\ \A q \in TermQueries :
                      r \notin SearchIds(CharacterChats_fts', CharacterChats', q, NoId)
      ]_vars

\* the records that carry a name
Named(card_data) == "name" \in DOMAIN card_data /\ card_data.name # NULL

\* the row a card record stands for: its values, the documented default for
\* every attribute it omits
ExpectedCardRow(card_data) ==
    [k \in CharacterCardsColumns |->
        IF k \in JsonCardKeys THEN JsonDumps(DictGet(card_data, k, JsonCardDefault(k)))
        ELSE IF k = "image" THEN DictGet(card_data, k, NULL)
        ELSE DictGet(card_data, k, "")]

\* C5: add_character_card of a record that carries a name inserts one row
\* and returns its new id when no card has the name, and otherwise
\* overwrites the fields of the card of that name, creates no row and
\* returns the id of that card.
UpsertInsertsOrOverwrites ==
    [][ (last'.op = "add_character_card" /\ Named(last'.card_data))
        => LET d == last'.card_data
               old == SelectCardIdByName(CharacterCards, d.name)
           IN  IF old = NoId
               THEN /\ last'.ret \notin DOMAIN CharacterCards
                    /\ DOMAIN CharacterCards' = DOMAIN CharacterCards \cup {last'.ret}
                    /\ CharacterCards'[last'.ret] = ExpectedCardRow(d)
                    /\ \A i \in DOMAIN CharacterCards :
                          CharacterCards'[i] = CharacterCards[i]
               ELSE /\ last'.ret = old
                    /\ DOMAIN CharacterCards' = DOMAIN CharacterCards
                    /\ CharacterCards'[old] = ExpectedCardRow(d)
                    /\ \A i \in DOMAIN CharacterCards \ {old} :
                          CharacterCards'[i] = CharacterCards[i]
      ]_vars

\* C6 (name uniqueness): no two cards have the same name and no card has a
\* null name, whatever the interleaving of the connections.
NameUniqueNotNull ==
    \A i \in DOMAIN CharacterCards :
        /\ CharacterCards[i].name # NULL
        /\ \A j \in DOMAIN CharacterCards :
              i # j => CharacterCards[i].name # CharacterCards[j].name

\* a connection that found no card of its name lost the race: its INSERT
\* was refused because the other connection's card of that name is stored
RacingInsertRefused ==
    /\ last.op = "add_character_card"
    /\ last.err = "IntegrityError"
    /\ Named(last.card_data)
    /\ \E i \in DOMAIN CharacterCards : CharacterCards[i].name = last.card_data.name

\* the store of the scenario before its first step, after its first and
\* after its second
ScenarioFresh ==
    /\ card_seq = 0 /\ chat_seq = 0
    /\ DOMAIN CharacterCards = {} /\ DOMAIN CharacterChats = {}

ScenarioAda ==
    /\ card_seq = 1 /\ DOMAIN CharacterCards = {1}
    /\ CharacterCards[1].name = "Ada"

ScenarioAdaIntro ==
    /\ ScenarioAda
    /\ chat_seq = 1 /\ DOMAIN CharacterChats = {1}
    /\ CharacterChats[1] = [character_id |-> 1, conversation_name |-> "intro",
                            chat_history |-> JsonDumps(HistHello),
                            is_snapshot |-> AdaptBool(FALSE)]

\* the card records that say "Ada" and leave every other field empty
AdaEmptyFields == {CardAdaBare, CardAdaEmpty}

\* C7 (scenario): on an empty store adding "Ada" with empty fields returns
\* 1; then adding the chat "intro" with [(user, hi), (Ada, hello)] for
\* character 1 returns 1; then search("hello") returns the one hit 1 with
\* a status of 1 chat(s); after delete_character_card(1) the chat 1 is
\* None and search("hello") has no hit.
ScenarioAdaHello ==
    [][ /\ (ScenarioFresh /\ last'.op = "add_character_card"
                /\ last'.card_data \in AdaEmptyFields)
            => last'.ret = 1
        /\ (ScenarioAda /\ chat_seq = 0 /\ last'.op = "add_character_chat"
                /\ last'.character_id = 1 /\ last'.conversation_name = "intro"
                /\ last'.chat_history = HistHello)
            => last'.ret = 1
        /\ (ScenarioAdaIntro /\ last'.op = "search_character_chats"
                /\ last'.query = "hello" /\ last'.character_id = NoId)
            => /\ Len(last'.ret.results) = 1
               /\ last'.ret.results[1].id = 1
               /\ last'.ret.status.text = "Found"
               /\ last'.ret.status.count = 1
        /\ (ScenarioAdaIntro /\ last'.op = "delete_character_card"
                /\ last'.character_id = 1)
            => /\ GetChat(CharacterChats', 1) = << >>
               /\ SearchCharacterChats(CharacterChats_fts', CharacterChats',
                                       "hello", NoId).results = << >>
      ]_vars

\* the value a stored JSON column of the card returned for id decodes to
DecodedField(cards, id, k) == JsonLoads(GetCard(cards, id)[1].row[k])

\* C8 (round trip): get_character_card_by_id(add_character_card(c)) carries
\* alternate_greetings, tags and extensions as text that decodes to the
\* structures of c, and to the empty list / map where c omits them.
CardRoundTrip ==
    [][ (last'.op = "add_character_card" /\ Named(last'.card_data))
        => /\ GetCard(CharacterCards', last'.ret) # << >>
           /\ \A k \in JsonCardKeys :
                DecodedField(CharacterCards', last'.ret, k)
                    = DictGet(last'.card_data, k, JsonCardDefault(k))
      ]_vars

\* whether another card than id has the name
NameTaken(cards, id, name) ==
    \E o \in DOMAIN cards : o # id /\ cards[o].name = name

\* C9: update_character_card of an existing id with a name no other card
\* has returns True; the row then has the given fields and no other row
\* has changed.
UpdateCharacterSucceeds ==
    [][ (last'.op = "update_character_card"
            /\ last'.character_id \in DOMAIN CharacterCards
            /\ Named(last'.card_data)
            /\ ~ NameTaken(CharacterCards, last'.character_id, last'.card_data.name))
        => /\ last'.raised = ""
           /\ last'.ret = TRUE
           /\ DOMAIN CharacterCards' = DOMAIN CharacterCards
           /\ CharacterCards'[last'.character_id].name = last'.card_data.name
           /\ CharacterCards'[last'.character_id].image
                = DictGet(last'.card_data, "image", NULL)
           /\ \A i \in DOMAIN CharacterCards \ {last'.character_id} :
                 CharacterCards'[i] = CharacterCards[i]
      ]_vars

\* C10: update_character_card of an id that does not exist, or with a name
\* another card has, returns False, raises nothing and changes no card.
UpdateCharacterFailsSilently ==
    [][ (last'.op = "update_character_card"
            /\ Named(last'.card_data)
            /\ \/ last'.character_id \notin DOMAIN CharacterCards
               \/ NameTaken(CharacterCards, last'.character_id, last'.card_data.name))
        => /\ last'.raised = ""
           /\ last'.ret = FALSE
           /\ CharacterCards' = CharacterCards
      ]_vars

\* C11: delete_character_card returns True exactly when a card with the id
\* existed before the call, and that card is gone afterwards; it returns
\* False when there was none, with or without chats of that character_id.
DeleteCharacterReportsExistence ==
    [][ last'.op = "delete_character_card"
        => /\ last'.ret = (last'.character_id \in DOMAIN CharacterCards)
           /\ last'.character_id \notin DOMAIN CharacterCards'
           /\ last'.raised = ""
      ]_vars

\* a delete that reported True for a card that existed and whose chat went
\* with it (the postings of the chat are still in the index)
DeletedCharacterWithChats ==
    /\ last.op = "delete_character_card"
    /\ last.ret = TRUE
    /\ last.character_id \notin DOMAIN CharacterCards
    /\ chat_seq > 0
    /\ DOMAIN CharacterChats = {}
    /\ DOMAIN CharacterChats_fts # {}

\* the step is one of a call of the handlers ops on connection c
Running(c, ops) ==
    \/ pc[c].at = "tx" /\ pc[c].call.op \in ops
    \/ pc'[c].at = "tx" /\ pc'[c].call.op \in ops

\* the character_id of the delete_character_card call connection c is in
DeletingCharacter(c) ==
    IF pc[c].at = "tx" THEN pc[c].call.character_id ELSE pc'[c].call.character_id

\* the committed card id and the committed chats of id are what they were
CharacterKept(id) ==
    /\ id \in DOMAIN CharacterCards
          => id \in DOMAIN CharacterCards' /\ CharacterCards'[id] = CharacterCards[id]
    /\ \A r \in ChatsOf(CharacterChats, id) :
          r \in DOMAIN CharacterChats' /\ CharacterChats'[r] = CharacterChats[r]

\* the committed card id and the committed chats of id are gone
CharacterGone(id) ==
    /\ id \notin DOMAIN CharacterCards'
    /\ ChatsOf(CharacterChats', id) = {}

\* the rows of C12: whatever step of delete_character_card is taken, and
\* when the process stops, the committed store keeps the card with all the
\* chats of the character or has none of them
DeleteCharacterRowsAtomic ==
    [][ \A c \in DOMAIN pc :
            Running(c, {"delete_character_card"})
            => CharacterKept(DeletingCharacter(c)) \/ CharacterGone(DeletingCharacter(c))
      ]_vars

\* C12: delete_character_card is one atomic transaction: at every step of
\* the call, and when the process stops at any step, the committed store
\* holds the card together with all chats of the character and their index
\* entries, or none of them.
DeleteCharacterAtomic ==
    [][ \A c \in DOMAIN pc :
            Running(c, {"delete_character_card"})
            => LET id == DeletingCharacter(c)
               IN  \/ /\ CharacterKept(id)
                      /\ \A r \in ChatsOf(CharacterChats, id) :
                            Fts5Entry(CharacterChats_fts', r)
                                = Fts5Entry(CharacterChats_fts, r)
                   \/ /\ CharacterGone(id)
                      /\ \A r \in ChatsOf(CharacterChats, id) :
                            r \notin DOMAIN CharacterChats_fts'
      ]_vars

\* chat r and its index entry agree: the entry holds the terms of the row,
\* and there is no entry without a row
InSync(chats, idx, r) ==
    IF r \in DOMAIN chats THEN Fts5Entry(idx, r) = RowTerms(chats, r)
    ELSE r \notin DOMAIN idx

\* the atomicity of C13: the committed chats and index entries change in
\* no other step of a chat write than its commit, and never when the
\* process stops
ChatWritesCommitOnce ==
    [][ << CharacterChats, CharacterChats_fts >>' # << CharacterChats, CharacterChats_fts >>
        => \/ last'.op = "add_character_card"
           \/ \E c \in DOMAIN pc :
                /\ pc[c].at = "tx" /\ pc'[c] = Idle
                /\ Program(pc[c].call)[pc[c].n + 1].sql = "COMMIT"
                /\ last' # last
      ]_vars

\* C13 (crash consistency of chat writes): whatever step of
\* add_character_chat, update_character_chat or delete_character_chat is
\* taken, and when the process stops at any step, every committed chat and
\* its index entry are in sync afterwards if they were before.
ChatWritesCrashConsistent ==
    [][ \A c \in DOMAIN pc :
            (/\ Running(c, {"add_character_chat", "update_character_chat",
                            "delete_character_chat"})
             /\ \A r \in ChatIds : InSync(CharacterChats, CharacterChats_fts, r))
            => \A r \in ChatIds : InSync(CharacterChats', CharacterChats_fts', r)
      ]_vars

RECURSIVE RunProgram(_)
\* connection state t after the rest of its program has run
RunProgram(t) ==
    IF t.raised # "" \/ t.n = Len(Program(t.call)) THEN t
    ELSE RunProgram(ExecStatement(Program(t.call)[t.n + 1], t))

\* the post-state of the mutation connection state t is part of: the store
\* it started from with every statement of the call applied, or that store
\* itself when the call fails
PostState(t) ==
    LET f == RunProgram([t EXCEPT !.n = 0, !.work = t.pre, !.rowcount = 0,
                                  !.chat_id = NoId, !.raised = ""])
    IN  IF f.raised = "" THEN f.work ELSE t.pre

ReaderOps ==
    {"get_character_card_by_id", "get_character_chat_by_id", "get_character_chats",
     "fetch_keywords_for_chats", "search_character_chats"}

\* what the reading call r returns on store db
ReadResult(r, db) ==
    CASE r.op = "get_character_card_by_id" -> GetCard(db.cards, r.character_id)
      [] r.op = "get_character_chat_by_id" -> GetChat(db.chats, r.chat_id)
      [] r.op = "get_character_chats" -> GetCharacterChats(db.chats, r.character_id)
      [] r.op = "fetch_keywords_for_chats" ->
            FetchKeywordsForChats(db.kws, r.keywords).ret
      [] r.op = "search_character_chats" ->
            SearchCharacterChats(db.idx, db.chats, r.query, r.character_id)

\* what every reading call of the specification returns on store db
Observe(db) ==
    [card |-> [i \in CardIds |-> GetCard(db.cards, i)],
     chat |-> [i \in ChatIds |-> GetChat(db.chats, i)],
     chats |-> [i \in CardIds \cup {NoId} |-> GetCharacterChats(db.chats, i)],
     lookup |-> [k \in LookupInputs |-> FetchKeywordsForChats(db.kws, k).ret],
     search |-> [q \in TermQueries |->
                    SearchCharacterChats(db.idx, db.chats, q, NoId)]]

\* C14 (reader isolation): while a mutation is running on a connection,
\* and in the step in which it returns or its process stops, what the
\* get / list / search / keyword-lookup calls observe is the mutation's
\* complete pre-state or its complete post-state, and a reading call that
\* returns meanwhile returns what it returns on one of the two.
ReaderIsolation ==
    [][ \A c \in DOMAIN pc :
            pc[c].at = "tx"
            => /\ \/ Committed' = pc[c].pre
                  \/ Observe(Committed') = Observe(pc[c].pre)
                  \/ Observe(Committed') = Observe(PostState(pc[c]))
               /\ (last' # last /\ last'.op \in ReaderOps)
                    => \/ last'.ret = ReadResult(last', pc[c].pre)
                       \/ last'.ret = ReadResult(last', PostState(pc[c]))
      ]_vars

\* a reading call returned its result on the pre-state while the
\* connection of a running mutation holds a half-applied state on which
\* the call would return something else, and which is neither the pre-
\* nor the post-state
ReadBesideHalfAppliedMutation ==
    \E c \in DOMAIN pc :
        /\ pc[c].at = "tx"
        /\ last.op \in ReaderOps
        /\ last.ret = ReadResult(last, pc[c].pre)
        /\ last.ret # ReadResult(last, pc[c].work)
        /\ Observe(pc[c].work) \notin {Observe(pc[c].pre), Observe(PostState(pc[c]))}

\* the rows of ChatKeywords that belong to chat_id, in table order
KeywordsOfChat(kws, chat_id) == SelectSeq(kws, LAMBDA r : r[1] = chat_id)

\* the add_character_chat call connection c is in
AddingChat(c) == IF pc[c].at = "tx" THEN pc[c].call ELSE pc'[c].call

\* C15: add_character_chat writes the chat and its keyword rows in one
\* transaction: a step of the call either is its successful return, with
\* the new chat, its index entry and one keyword row per supplied keyword
\* committed together, or leaves the committed chats, keyword rows and
\* index entries as they were -- also when the call fails or the process
\* stops after some of the rows were written.
AddChatWithKeywordsAtomic ==
    [][ \A c \in DOMAIN pc :
            Running(c, {"add_character_chat"})
            => IF last' # last /\ last'.op = "add_character_chat" /\ last'.ret # NoId
               THEN /\ last'.ret \notin DOMAIN CharacterChats
                    /\ DOMAIN CharacterChats' = DOMAIN CharacterChats \cup {last'.ret}
                    /\ last'.ret \in DOMAIN CharacterChats_fts'
                    /\ KeywordsOfChat(ChatKeywords, last'.ret) = << >>
                    /\ Len(KeywordsOfChat(ChatKeywords', last'.ret))
                            = Len(AddingChat(c).keywords)
                    /\ Len(ChatKeywords') = Len(ChatKeywords) + Len(AddingChat(c).keywords)
               ELSE /\ CharacterChats' = CharacterChats
                    /\ ChatKeywords' = ChatKeywords
                    /\ CharacterChats_fts' = CharacterChats_fts
      ]_vars

\* add_character_chat failed on its second keyword, after the INSERT of the
\* chat: nothing of the call is in the store
AddChatFailedOnKeywords ==
    /\ last.op = "add_character_chat"
    /\ last.raised = "AttributeError"
    /\ Len(last.keywords) = 2 /\ last.keywords[2] = NULL
    /\ chat_seq = 0
    /\ DOMAIN CharacterChats = {} /\ DOMAIN CharacterChats_fts = {}
    /\ ChatKeywords = << >>

\* C16: fetch_keywords_for_chats(K) returns exactly the chat ids that have
\* a ChatKeywords row with a keyword of K, each id once even when a
\* (chat_id, keyword) pair is stored more than once; for an empty K it
\* returns the empty list without opening the store.
LookupIsUnionOverKeywords ==
    [][ last'.op = "fetch_keywords_for_chats"
        => IF last'.keywords = << >>
           THEN last'.ret = << >> /\ ~ last'.opened
           ELSE /\ Range(last'.ret)
                      = {r \in TaggedChatIds :
                            \E j \in DOMAIN ChatKeywords, i \in DOMAIN last'.keywords :
                                ChatKeywords[j] = << r, last'.keywords[i] >>}
                /\ \A a, b \in DOMAIN last'.ret :
                      last'.ret[a] = last'.ret[b] => a = b
      ]_vars

\* a lookup for two keywords returned two chats, one of which has its
\* matching (chat_id, keyword) pair stored twice
LookupOverDuplicatePair ==
    /\ last.op = "fetch_keywords_for_chats"
    /\ Len(last.keywords) = 2
    /\ Len(last.ret) = 2
    /\ \E a, b \in DOMAIN ChatKeywords :
          /\ a # b
          /\ ChatKeywords[a] = ChatKeywords[b]
          /\ ChatKeywords[a][2] \in Range(last.keywords)

\* C17: a lookup normalizes its keyword as the write did: for a chat that
\* was added with keyword k (stored as the trimmed, lower-cased k),
\* fetch_keywords_for_chats([k2]) contains the chat for every k2 whose
\* trimmed, lower-cased form is that of k.
LookupNormalizesInput ==
    [][ (last'.op = "fetch_keywords_for_chats" /\ Len(last'.keywords) = 1)
        => \A j \in DOMAIN ChatKeywords :
              Lower(Strip(last'.keywords[1])) = ChatKeywords[j][2]
              => ChatKeywords[j][1] \in Range(last'.ret)
      ]_vars

\* C18: the keyword of every ChatKeywords row is its own trimmed,
\* lower-cased form.
StoredKeywordsNormalized ==
    \A j \in DOMAIN ChatKeywords :
        Lower(Strip(ChatKeywords[j][2])) = ChatKeywords[j][2]

\* a chat added with the keyword " Foo " has the row (id, "foo")
StoredFooForPaddedFoo ==
    /\ last.op = "add_character_chat"
    /\ last.ret # NoId
    /\ " Foo " \in Range(last.keywords)
    /\ \E j \in DOMAIN ChatKeywords : ChatKeywords[j] = << last.ret, "foo" >>

\* C19: search_character_chats with an empty or whitespace-only query
\* returns no results and the status that asks for a query, without
\* opening the store, whatever the store holds and whatever character_id.
BlankSearchTouchesNothing ==
    [][ (last'.op = "search_character_chats" /\ last'.query \in {"", " "})
        => /\ last'.ret.results = << >>
           /\ last'.ret.status = [text |-> "Please enter a search query."]
           /\ ~ last'.opened
           /\ store' = store
      ]_vars

\* a blank search for a character that has a chat in the store
BlankSearchOverChats ==
    /\ last.op = "search_character_chats"
    /\ last.query = " "
    /\ last.character_id # NoId
    /\ ChatsOf(CharacterChats, last.character_id) # {}
    /\ last.ret.results = << >>
    /\ ~ last.opened

\* the chats whose index entry holds the query term and that belong to
\* character_id, or to any character when it is omitted
MatchingChats(query, character_id) ==
    {r \in DOMAIN CharacterChats :
        /\ Lower(query) \in Fts5Entry(CharacterChats_fts, r).conversation_name
                             \cup Fts5Entry(CharacterChats_fts, r).chat_history
        /\ character_id = NoId \/ CharacterChats[r].character_id = character_id}

\* what C20 says of the result res of search_character_chats(query,
\* character_id)
SearchResultAsClaimed(res, query, character_id) ==
    /\ {res.results[i].id : i \in DOMAIN res.results}
            = MatchingChats(query, character_id)
    /\ \A i \in DOMAIN res.results :
          /\ res.results[i].conversation_name
                = CharacterChats[res.results[i].id].conversation_name
          /\ res.results[i].chat_history
                = CharacterChats[res.results[i].id].chat_history
    /\ res.status.text = "Found"
    /\ "count" \in DOMAIN res.status /\ res.status.count = Len(res.results)
    /\ "scope" \in DOMAIN res.status
    /\ res.status.scope = IF character_id = NoId THEN "across all characters"
                          ELSE "for the selected character"

\* C20 as stated: every search with a non-empty query returns the matching
\* chats of the character (of all characters when character_id is
\* omitted), each with id, conversation_name and chat_history, and a status
\* with the number of hits and the scope.
NonEmptySearchReturnsMatches ==
    [][ (last'.op = "search_character_chats" /\ Strip(last'.query) # "")
        => SearchResultAsClaimed(last'.ret, last'.query, last'.character_id)
      ]_vars

\* C20 amended: the same for every non-empty query the index engine can
\* parse.
WellFormedSearchReturnsMatches ==
    [][ (last'.op = "search_character_chats" /\ Strip(last'.query) # ""
            /\ last'.query \notin MalformedQueries)
        => SearchResultAsClaimed(last'.ret, last'.query, last'.character_id)
      ]_vars

\* a search filtered to a character returned its one matching chat while a
\* chat of another character matches the query too
FilteredSearchLeftOutOtherCharacter ==
    /\ last.op = "search_character_chats"
    /\ last.character_id # NoId
    /\ Len(last.ret.results) = 1
    /\ last.ret.status.text = "Found"
    /\ Cardinality(MatchingChats(last.query, NoId)) = 2
    /\ Cardinality(MatchingChats(last.query, last.character_id)) = 1

(***************************************************************************)
(* Schema initialization.                                                  *)
(***************************************************************************)
\* no structure is listed twice in master
NoDuplicateStructures(master) ==
    \A i, j \in DOMAIN master : master[i].name = master[j].name => i = j

\* master holds every structure of pre, as pre lists it
KeepsStructures(pre, master) ==
    /\ Len(pre) <= Len(master)
    /\ \A i \in DOMAIN pre : master[i] = pre[i]

\* C23: initialize_database is idempotent.  Every statement of it, on a
\* new file, on a partly or fully initialized one, and on a store that
\* holds cards, chats, keywords and index entries, leaves all rows and
\* index entries as they are, keeps the structures that exist and lists no
\* structure twice; a call none of whose statements fails in the engine
\* raises nothing and returns on the complete schema.
InitializeIdempotent ==
    [][ (\E c \in DOMAIN pc : pc[c].at = "init" \/ pc'[c].at = "init")
            => /\ data' = data
               /\ KeepsStructures(sqlite_master, sqlite_master')
               /\ NoDuplicateStructures(sqlite_master')
               /\ (\A c \in DOMAIN pc : pc'[c] = Idle) /\ ~last'.fault
                    => /\ last'.op = "initialize_database"
                       /\ last'.raised = ""
                       /\ SchemaComplete' ]_vars

\* initialize_database has returned without an error on a
\* schema that was complete when it began, on a store that holds a card, a
\* chat, a keyword and the index entry of a deleted chat
InitializedPopulatedStoreAgain ==
    /\ last.op = "initialize_database"
    /\ last.raised = ""
    /\ StructureNames(last.pre) = StructureNames(InitializedSchema)
    /\ DOMAIN CharacterCards # {}
    /\ DOMAIN CharacterChats # {}
    /\ Len(ChatKeywords) > 0
    /\ DOMAIN CharacterChats_fts # {}

\* C24: initialize_database is all or nothing.  When it raises, the file
\* holds exactly the structures it held when the call began.
InitializeAllOrNothing ==
    [][ last'.op = "initialize_database" /\ last'.raised # ""
        /\ (\E c \in DOMAIN pc : pc[c].at = "init")
            => sqlite_master' = last'.pre ]_vars

(***************************************************************************)
(* Errors of the search.                                                   *)
(***************************************************************************)
\* C22: search_character_chats with a query FTS5 cannot parse returns no
\* results and the error status; it raises nothing and leaves the store
\* as it is, whatever the store holds and whatever character_id.
MalformedSearchReturnsErrorStatus ==
    [][ (last'.op = "search_character_chats" /\ last'.query \in MalformedQueries)
        => /\ last'.raised = ""
           /\ last'.ret.results = << >>
           /\ last'.ret.status = [text |-> "Error occurred during search"]
           /\ store' = store
      ]_vars

\* a malformed search over a store in which a chat of the character matches
\* a well-formed query
MalformedSearchOverChats ==
    /\ last.op = "search_character_chats"
    /\ last.query \in MalformedQueries
    /\ last.character_id # NoId
    /\ SearchIds(CharacterChats_fts, CharacterChats, "hello", last.character_id) # {}
    /\ last.ret.results = << >>

(***************************************************************************)
(* Pages of the search.                                                    *)
(***************************************************************************)
\* the ids on page p of search_db(q, f, w) with the default page size
PageIds(q, f, w, p) ==
    LET res == SearchDb(CharacterChats_fts, CharacterChats, q, f, w, p, PageSize)
    IN  {res[i].id : i \in DOMAIN res}

\* the full match set of q among the chats that w keeps
FullMatchSet(q, w) ==
    {r \in MatchingChats(q, NoId) : WhereHolds(w, CharacterChats, r)}

\* the number of the last page
LastPage(q, w) == (Cardinality(FullMatchSet(q, w)) + PageSize - 1) \div PageSize

\* the pages 1..LastPage of search_db(q, f, w) are pairwise disjoint, their
\* union is the full match set, and the page after the last is empty
PagesPartition(q, f, w) ==
    /\ \A p1, p2 \in 1 .. LastPage(q, w) :
          p1 # p2 => PageIds(q, f, w, p1) \cap PageIds(q, f, w, p2) = {}
    /\ UNION {PageIds(q, f, w, p) : p \in 1 .. LastPage(q, w)} = FullMatchSet(q, w)
    /\ PageIds(q, f, w, LastPage(q, w) + 1) = {}

\* C21: on every store, for every query of one term and every fields
\* argument that names the index or columns of it, the pages of search_db
\* partition the full match set.
PagesPartitionMatches ==
    \A q \in TermQueries, f \in FieldsInputs, w \in WhereInputs :
        PagesPartition(q, f, w)

\* the pages for the one fields argument under which the statement of search_db
\* runs: the table name of the index.
PagesPartitionMatchesByIndexName ==
    \A q \in TermQueries, w \in WhereInputs :
        PagesPartition(q, << "CharacterChats_fts" >>, w)

\* the second page of a search by index name came back with the one hit
\* that the first page had no room for
SecondPageReturned ==
    /\ last.op = "search_db"
    /\ last.fields = << "CharacterChats_fts" >>
    /\ last.page = 2
    /\ Len(last.ret) = 1
    /\ Cardinality(FullMatchSet(last.query, last.where_clause)) = PageSize + 1

(***************************************************************************)
(* Ids that name no row.                                                   *)
(***************************************************************************)
\* C25: get_character_card_by_id and get_character_chat_by_id return None
\* for an id that names no row, update_character_chat and
\* delete_character_chat return False for it, and none of the four raises
\* or changes the store.
NotFoundIsAResult ==
    [][ /\ (last'.op = "get_character_card_by_id"
                /\ last'.character_id \notin DOMAIN CharacterCards)
            => last'.ret = << >> /\ last'.raised = "" /\ store' = store
        /\ (last'.op = "get_character_chat_by_id"
                /\ last'.chat_id \notin DOMAIN CharacterChats)
            => last'.ret = << >> /\ last'.raised = "" /\ store' = store
        /\ (last'.op \in {"update_character_chat", "delete_character_chat"}
                /\ last'.chat_id \notin DOMAIN CharacterChats)
            => last'.ret = FALSE /\ last'.raised = "" /\ store' = store
      ]_vars

\* update_character_chat returned False for the id of a chat that was
\* deleted, while the index still holds terms under that id
UpdateOfDeletedChatNotFound ==
    /\ last.op = "update_character_chat"
    /\ last.ret = FALSE
    /\ last.chat_id <= chat_seq
    /\ last.chat_id \notin DOMAIN CharacterChats
    /\ last.chat_id \in DOMAIN CharacterChats_fts

(***************************************************************************)
(* The history of a chat.                                                  *)
(***************************************************************************)
\* a history as the ordered sequence of its (speaker, message) pairs; a
\* pair is a tuple in the argument and a list of two in the decoded JSON
Pairs(history) ==
    [i \in DOMAIN history.v |-> << history.v[i].v[1].v, history.v[i].v[2].v >>]

\* C26: update_character_chat on an existing chat returns True and
\* replaces the stored history wholesale: the history get_character_chat_by_id
\* decodes from the store afterwards is the given one, whatever the chat
\* held before and whatever an earlier update wrote, and the
\* get_character_chat_by_id that follows the update returns it.
UpdateReplacesHistory ==
    [][ /\ (last'.op = "update_character_chat"
                /\ last'.chat_id \in DOMAIN CharacterChats)
            => /\ last'.ret = TRUE
               /\ last'.raised = ""
               /\ Pairs(GetChat(CharacterChats', last'.chat_id)[1].chat_history)
                    = Pairs(last'.chat_history)
        /\ (last'.op = "get_character_chat_by_id"
                /\ last.op = "update_character_chat" /\ last.ret = TRUE
                /\ last'.chat_id = last.chat_id)
            => /\ last'.ret # << >>
               /\ Pairs(last'.ret[1].chat_history) = Pairs(last.chat_history)
      ]_vars

\* get_character_chat_by_id returned the history of an update for a chat
\* that was added with another history, of which the index still has a term
ReadUpdatedHistory ==
    /\ last.op = "get_character_chat_by_id"
    /\ last.ret # << >>
    /\ Pairs(last.ret[1].chat_history) = Pairs(HistBye)
    /\ "hello" \in Fts5Entry(CharacterChats_fts, last.chat_id).chat_history

(***************************************************************************)
(* Deleting a chat.                                                        *)
(***************************************************************************)
\* C27: delete_character_chat on an existing chat returns True and removes
\* the row and its index entry together: afterwards get_character_chat_by_id
\* gives None for the id, no search returns it, and the id has an index
\* entry after the call exactly when it has a row.
DeleteChatRemovesRowAndEntry ==
    [][ /\ (last'.op = "delete_character_chat"
                /\ last'.chat_id \in DOMAIN CharacterChats)
            => /\ last'.ret = TRUE
               /\ GetChat(CharacterChats', last'.chat_id) = << >>
               /\ \A q \in TermQueries :
                    last'.chat_id \notin SearchIds(CharacterChats_fts',
                                                   CharacterChats', q, NoId)
               /\ last'.chat_id \notin DOMAIN CharacterChats_fts'
        /\ last'.op = "delete_character_chat"
            => (last'.chat_id \in DOMAIN CharacterChats'
                    <=> last'.chat_id \in DOMAIN CharacterChats_fts')
      ]_vars

\* the part of C27 that the callers of the handlers can observe: the row
\* is gone and no search returns the id.
DeleteChatHidesChat ==
    [][ (last'.op = "delete_character_chat"
            /\ last'.chat_id \in DOMAIN CharacterChats)
        => /\ last'.ret = TRUE
           /\ GetChat(CharacterChats', last'.chat_id) = << >>
           /\ \A q \in TermQueries :
                last'.chat_id \notin SearchIds(CharacterChats_fts',
                                               CharacterChats', q, NoId)
      ]_vars

(***************************************************************************)
(* Writers of the index.                                                   *)
(***************************************************************************)
\* the handlers that insert, update or delete rows of CharacterChats
ChatWriters ==
    {"add_character_chat", "update_character_chat", "delete_character_chat",
     "delete_character_card"}

\* the searches
Searches == {"search_character_chats", "search_db"}

\* C28: the index has no write path of its own.  A step that changes an
\* index entry is a step of a handler that inserts, updates or deletes
\* chats; add_character_card, update_character_card, the keyword lookup,
\* the get and list handlers and the searches leave every index entry as
\* it is, and a search writes nothing to the store at all.
IndexHasNoOwnWritePath ==
    [][ /\ CharacterChats_fts' # CharacterChats_fts => last'.op \in ChatWriters
        /\ last'.op \notin ChatWriters => CharacterChats_fts' = CharacterChats_fts
        /\ last'.op \in Searches => store' = store
      ]_vars

\* a search has run on a store whose index holds the entry of a deleted
\* chat, which is still there
SearchedOverStaleIndex ==
    /\ last.op \in Searches
    /\ \E r \in DOMAIN CharacterChats_fts : r \notin DOMAIN CharacterChats

(***************************************************************************)
(* Failed writes.                                                          *)
(***************************************************************************)
\* the handlers that return an id, or None when they fail
IdWriters == {"add_character_card", "add_character_chat"}

\* the handlers that return True, or False when they fail
FlagWriters ==
    {"update_character_card", "delete_character_card", "update_character_chat",
     "delete_character_chat"}

\* the call of last' reports failure or raises
ReportsFailure ==
    \/ last'.op \in IdWriters \cup FlagWriters /\ last'.raised # ""
    \/ last'.op \in IdWriters /\ last'.raised = "" /\ last'.ret = NoId
    \/ last'.op \in FlagWriters /\ last'.raised = "" /\ last'.ret = FALSE

\* C29: whenever a writing handler returns None or False or raises, the
\* committed store is what it was before the call.
FailedWriteChangesNothing ==
    [][ ReportsFailure => store' = store ]_vars

\* the same for every writing handler but delete_character_card.
FailedWriteChangesNothingButDeleteCard ==
    [][ ReportsFailure /\ last'.op # "delete_character_card"
            => store' = store ]_vars

(***************************************************************************)
(* Storage faults.                                                         *)
(***************************************************************************)
\* the value op returns for the conditions it expects: None for a
\* constraint violation, False for an id that names no row
ExpectedFailure(op) == IF op \in IdWriters THEN NoId ELSE FALSE

\* C30: a storage fault during a writing handler reaches the caller as an
\* error unlike the results of the expected conditions -- an exception, or
\* a value other than the None / False of a constraint violation or of an
\* id that names no row -- and the call commits nothing.
StorageFaultDistinguishable ==
    [][ ("fault" \in DOMAIN last' /\ last' # last)
        => /\ \/ last'.raised # ""
              \/ last'.ret # ExpectedFailure(last'.op)
           /\ store' = store
           /\ \A c \in DOMAIN pc :
                pc[c].at = "tx" /\ pc'[c] = Idle => Committed' = pc[c].pre
      ]_vars

\* the part of C30 on the store: the call that met the fault has committed
\* nothing.
StorageFaultCommitsNothing ==
    [][ ("fault" \in DOMAIN last' /\ last' # last)
        => /\ store' = store
           /\ \A c \in DOMAIN pc :
                pc[c].at = "tx" /\ pc'[c] = Idle => Committed' = pc[c].pre
      ]_vars

(***************************************************************************)
(* Progress.                                                               *)
(***************************************************************************)
\* C31: no call blocks for ever.  With callers on two connections and a
\* fair scheduler, every call that has started returns in the end, with
\* its result or with the value it returns for an error, also when the
\* other connection holds the write lock.
EveryCallReturns ==
    \A c \in Conns : InCall(c) ~> (pc[c] = Idle)

\* a writer waits for the write lock that the other connection holds
WriterWaitsForLock ==
    \E c, o \in Conns : pc[c].at = "connected" /\ pc[o].at = "tx"

(***************************************************************************)
(* Concurrent upserts of one new name.                                     *)
(***************************************************************************)
\* connection c is about to write a card whose name no card had when c
\* looked it up, from a record that has a name and an image
WritesNewName(c) ==
    /\ pc[c].at = "selected"
    /\ pc[c].row = NoId
    /\ Named(pc[c].card_data)
    /\ "image" \in DOMAIN pc[c].card_data

\* the call returned the id of the card of name
ReturnedCardOf(name, ret, cards) ==
    /\ ret # NoId
    /\ ret \in DOMAIN cards
    /\ cards[ret].name = name

\* C32: two upserts of one new name that run at the same time both return
\* the id of the one card of that name, however their lookups and writes
\* interleave: a call that found no card of its name returns the id of the
\* card of that name, never a failure value.
RacingUpsertsReturnTheCard ==
    [][ \A c \in Conns :
            (WritesNewName(c) /\ pc'[c] = Idle)
                => ReturnedCardOf(pc[c].card_data.name, last'.ret, CharacterCards')
      ]_vars

\* the same for a call whose name is still new when it writes: it returns
\* the id of the card it inserted
UpsertsInTurnReturnTheCard ==
    [][ \A c \in Conns :
            (/\ WritesNewName(c) /\ pc'[c] = Idle
             /\ SelectCardIdByName(CharacterCards, pc[c].card_data.name) = NoId)
                => ReturnedCardOf(pc[c].card_data.name, last'.ret, CharacterCards')
      ]_vars

(***************************************************************************)
(* Keywords of deleted chats.                                              *)
(***************************************************************************)
\* every row of kws names a chat of chats
KeywordsNameChats(kws, chats) ==
    \A j \in DOMAIN kws : kws[j][1] \in DOMAIN chats

\* C33 (no orphan keywords): every ChatKeywords row names a stored chat, so
\* that fetch_keywords_for_chats never returns the id of a chat that
\* delete_character_chat or delete_character_card has deleted.
NoOrphanKeywords ==
    [][ /\ KeywordsNameChats(ChatKeywords', CharacterChats')
        /\ (last' # last /\ last'.op = "fetch_keywords_for_chats")
              => Range(last'.ret) \subseteq DOMAIN CharacterChats'
      ]_vars

\* the keyword rows name chats as long as no chat has been deleted
NoOrphanKeywordsBeforeDelete ==
    chat_seq = Cardinality(DOMAIN CharacterChats)
        => KeywordsNameChats(ChatKeywords, CharacterChats)

(***************************************************************************)
(* delete_character_card of an id without a card.                          *)
(***************************************************************************)
\* C34: a delete_character_card that returns False leaves the store as it
\* was: it removes no chat, no keyword row and no index entry.
FalseDeleteCharacterRemovesNothing ==
    [][ (last'.op = "delete_character_card" /\ last'.ret = FALSE)
            => /\ CharacterChats' = CharacterChats
               /\ ChatKeywords' = ChatKeywords
               /\ CharacterChats_fts' = CharacterChats_fts
               /\ CharacterCards' = CharacterCards
      ]_vars

\* the same on a store whose chats all belong to stored cards
FalseDeleteCharacterRemovesNoOwnedChat ==
    [][ (/\ last'.op = "delete_character_card" /\ last'.ret = FALSE
         /\ \A i \in DOMAIN CharacterChats :
                CharacterChats[i].character_id \in DOMAIN CharacterCards)
            => data' = data
      ]_vars

(***************************************************************************)
(* Ids are issued once.                                                    *)
(***************************************************************************)
\* this step is the return of a successful add_character_chat
AddChatReturns ==
    /\ last'.op = "add_character_chat"
    /\ last'.ret # NoId
    /\ \E c \in DOMAIN pc : pc[c].at = "tx" /\ pc'[c] = Idle

\* this step is the return of an add_character_card that inserted a card
AddCardInserts ==
    /\ last'.op = "add_character_card"
    /\ last'.ret # NoId
    /\ pc' = pc
    /\ last'.ret \notin DOMAIN CharacterCards

\* C35: ids are never reused.  The id a successful add_character_chat
\* returns is greater than every chat id returned before (none of which
\* exceeds the sequence of the table, which never decreases), also after
\* the chats with the highest ids were deleted; likewise for the id of
\* every new card.
IdsNeverReused ==
    [][ /\ chat_seq' >= chat_seq
        /\ card_seq' >= card_seq
        /\ AddChatReturns => (chat_seq < last'.ret /\ last'.ret <= chat_seq')
        /\ AddCardInserts => (card_seq < last'.ret /\ last'.ret <= card_seq')
      ]_vars

\* a chat was added after the only chat, that of the highest id, had been
\* deleted, and got the next id
AddedChatAfterDeletingHighest ==
    /\ last.op = "add_character_chat"
    /\ last.ret = 2
    /\ DOMAIN CharacterChats = {2}

(***************************************************************************)
(* add_character_card on a name that is stored.                            *)
(***************************************************************************)
\* the id of the stored card that the add_character_card of this step names
\* (NoId when this step is no such call)
UpsertedCard ==
    IF last'.op = "add_character_card"
    THEN SelectCardIdByName(CharacterCards, parse_character_card(last'.card_data).name)
    ELSE NoId

\* C36: add_character_card on a name that already exists leaves the id and
\* the name of that card, every other card, every chat, every keyword row
\* and every index entry as they were; only the other columns of that one
\* card change.
UpsertOfStoredNameKeepsTheRest ==
    [][ UpsertedCard # NoId =>
            /\ DOMAIN CharacterCards' = DOMAIN CharacterCards
            /\ CharacterCards'[UpsertedCard].name = CharacterCards[UpsertedCard].name
            /\ \A o \in DOMAIN CharacterCards \ {UpsertedCard} :
                    CharacterCards'[o] = CharacterCards[o]
            /\ CharacterChats' = CharacterChats
            /\ ChatKeywords' = ChatKeywords
            /\ CharacterChats_fts' = CharacterChats_fts
      ]_vars

\* card 1 was written again after card 2 had been stored, with values it did
\* not have before, while a chat with a keyword was stored
StoredCardWrittenAgain ==
    /\ last.op = "add_character_card"
    /\ last.card_data = CardAdaFull
    /\ last.ret = 1
    /\ 2 \in DOMAIN CharacterCards
    /\ CharacterCards[1].description = "poet"
    /\ CharacterChats # << >>
    /\ ChatKeywords # << >>

(***************************************************************************)
(* What update_character_chat leaves alone.                                *)
(***************************************************************************)
\* the chat whose update_character_chat returns in this step (NoId when no
\* update of a stored chat returns)
UpdatedChat ==
    IF \E c \in DOMAIN pc :
            /\ pc[c].at = "tx" /\ pc'[c] = Idle
            /\ pc[c].call.op = "update_character_chat"
            /\ pc[c].call.chat_id \in DOMAIN CharacterChats
    THEN pc[CHOOSE c \in DOMAIN pc : pc[c].at = "tx" /\ pc'[c] = Idle].call.chat_id
    ELSE NoId

\* C37: update_character_chat changes the chat_history of the chat and
\* the history terms of its index entry, and nothing else: the other
\* columns of the chat and its keywords, every other chat and index entry
\* and every card are as before, and a search for the conversation_name
\* that found the chat before still finds it.
UpdateChangesHistoryOnly ==
    [][ UpdatedChat # NoId =>
            /\ DOMAIN CharacterChats' = DOMAIN CharacterChats
            /\ \A i \in DOMAIN CharacterChats : \A f \in DOMAIN CharacterChats[i] :
                    (i # UpdatedChat \/ f # "chat_history")
                        => CharacterChats'[i][f] = CharacterChats[i][f]
            /\ ChatKeywords' = ChatKeywords
            /\ CharacterCards' = CharacterCards
            /\ \A r \in (DOMAIN CharacterChats_fts \cup DOMAIN CharacterChats_fts')
                            \ {UpdatedChat} :
                    Fts5Entry(CharacterChats_fts', r) = Fts5Entry(CharacterChats_fts, r)
            /\ Fts5Entry(CharacterChats_fts', UpdatedChat).conversation_name
                    = Fts5Entry(CharacterChats_fts, UpdatedChat).conversation_name
            /\ UpdatedChat \in SearchIds(CharacterChats_fts, CharacterChats,
                                    CharacterChats[UpdatedChat].conversation_name, NoId)
                 => UpdatedChat \in SearchIds(CharacterChats_fts', CharacterChats',
                                    CharacterChats[UpdatedChat].conversation_name, NoId)
      ]_vars

\* the history of a snapshot chat with a keyword was replaced while another
\* chat and a card were stored, and a search for its name finds it
UpdatedOneOfTwoChats ==
    /\ last.op = "update_character_chat"
    /\ last.ret = TRUE
    /\ last.chat_history = HistBye
    /\ Cardinality(DOMAIN CharacterChats) = 2
    /\ last.chat_id \in DOMAIN CharacterChats
    /\ CharacterChats[last.chat_id].chat_history = JsonDumps(HistBye)
    /\ CharacterChats[last.chat_id].is_snapshot = AdaptBool(TRUE)
    /\ KeywordsOfChat(ChatKeywords, last.chat_id) # << >>
    /\ CharacterCards # << >>
    /\ last.chat_id \in SearchIds(CharacterChats_fts, CharacterChats,
                            CharacterChats[last.chat_id].conversation_name, NoId)

(***************************************************************************)
(* A chat read back.                                                       *)
(***************************************************************************)
\* Python's == between the bool a caller gave and the integer read back
PyEqBool(b, n) == (b /\ n = 1) \/ (~ b /\ n = 0)

\* the ids of the chats get_character_chats lists for character_id
ListedChats(chats, character_id) ==
    {GetCharacterChats(chats, character_id)[j].id :
        j \in DOMAIN GetCharacterChats(chats, character_id)}

\* the chat that get_character_chat_by_id returned is the one call added
ReadBack(ret, call) ==
    /\ ret # << >>
    /\ ret[1].id = call.ret
    /\ ret[1].character_id = call.character_id
    /\ ret[1].conversation_name = call.conversation_name
    /\ Pairs(ret[1].chat_history) = Pairs(call.chat_history)
    /\ PyEqBool(call.is_snapshot, ret[1].is_snapshot)

\* C38 (round trip of a chat): after a successful add_character_chat,
\* get_character_chat_by_id of the id returned gives the character_id and
\* the conversation_name of the call, its history as the same sequence of
\* (speaker, message) pairs and its is_snapshot; get_character_chats of
\* the character lists the id and get_character_chats of any other
\* character does not.
ChatRoundTrip ==
    [][ /\ AddChatReturns
            => /\ ReadBack(GetChat(CharacterChats', last'.ret), last')
               /\ last'.ret \in ListedChats(CharacterChats', last'.character_id)
               /\ \A o \in CardIds \ {last'.character_id} :
                        last'.ret \notin ListedChats(CharacterChats', o)
        /\ (/\ last.op = "add_character_chat" /\ last.ret # NoId
            /\ last'.op = "get_character_chat_by_id" /\ last'.chat_id = last.ret)
            => ReadBack(last'.ret, last)
      ]_vars

\* the second chat, a snapshot of another character than the first chat's,
\* was read back
ReadBackSnapshotOfSecondCharacter ==
    /\ last.op = "get_character_chat_by_id"
    /\ last.chat_id = 2
    /\ last.ret # << >>
    /\ last.ret[1].is_snapshot = 1
    /\ Pairs(last.ret[1].chat_history) = << << "user", "hi" >>, << "Ada", "hello" >> >>
    /\ DOMAIN CharacterChats = {1, 2}
    /\ CharacterChats[1].character_id # CharacterChats[2].character_id

(***************************************************************************)
(* Full-text search within chat ids.                                       *)
(***************************************************************************)
\* the stored chats among ids that the index matches with query
MatchesWithin(query, ids) ==
    (Fts5Match(CharacterChats_fts, query) \cap DOMAIN CharacterChats)
        \cap {ids[i] : i \in DOMAIN ids}

\* the chat ids a result of perform_full_text_search_chat names
ResultIds(ret) == {ret[i].metadata.media_id : i \in DOMAIN ret}

\* C39: for a non-empty query perform_full_text_search_chat returns the
\* chats that match the query and whose id is in relevant_chat_ids (all of
\* them when they fit on the first page), each with its content and its id
\* as metadata, and no chat whose id is outside relevant_chat_ids.
FullTextSearchWithinChatIds ==
    [][ (/\ last'.op = "perform_full_text_search_chat"
         /\ Strip(last'.query) # ""
         /\ last'.query \notin MalformedQueries)
            => /\ ResultIds(last'.ret) \subseteq
                    MatchesWithin(last'.query, last'.relevant_chat_ids)
               /\ \A i \in DOMAIN last'.ret : "content" \in DOMAIN last'.ret[i]
               /\ (/\ last'.page = 1
                   /\ Cardinality(MatchesWithin(last'.query, last'.relevant_chat_ids))
                        <= last'.results_per_page)
                    => ResultIds(last'.ret)
                            = MatchesWithin(last'.query, last'.relevant_chat_ids)
      ]_vars

\* perform_full_text_search_chat never returns a chat outside
\* relevant_chat_ids: it returns no chat at all
FullTextSearchReturnsNothing ==
    last.op = "perform_full_text_search_chat" => last.ret = << >>

=============================================================================
